---- MODULE Spec2Model ----
(***************************************************************************)
(* A model of the corrosiones 6502 core: the memory map, the flag          *)
(* register, the register file with its stack helpers, the operand         *)
(* accessors and the instruction semantics reached through CPU::step.      *)
(*                                                                         *)
(* Every Rust function is an operator over a CPU record                    *)
(*   [memory, flags, pc, sp, a, x, y, fatal]                               *)
(* whose field fatal is "none" until a panic! (or an out-of-bounds index)  *)
(* ends the run; once it is set every later operation is a no-op, as the   *)
(* unwinding panic skips the rest of the Rust function.                    *)
(*                                                                         *)
(* A Vec<u8> is the record [len, nz]: its length and the function from the *)
(* indices of its non-zero bytes to those bytes.  The encoding is          *)
(* canonical (a zero byte is never stored in nz), so record equality is    *)
(* vector equality.                                                        *)
(***************************************************************************)
EXTENDS Integers, Sequences, FiniteSets, TLC

VARIABLES
    memory,          \* CPU.memory : Memory {ram, io, expansion_rom, sram, rom}
    flags,           \* CPU.flags  : Flags
    pc,              \* CPU.pc     : u16
    sp,              \* CPU.sp     : u8
    a,               \* CPU.a      : u8
    x,               \* CPU.x      : u8
    y,               \* CPU.y      : u8
    fatal,           \* "none", or the panic that ended the run
    overflow_checks, \* build profile: TRUE = debug (+ and - panic on overflow)
    last,            \* observer: the last operation, its argument, result and pre-state
    pushed,          \* observer: bytes pushed and not yet popped, oldest first
    base_sp,         \* observer: SP when pushed was last empty
    call,            \* observer: the JSR whose return address is on the stack
    nops             \* observer: number of harness operations so far

vars == <<memory, flags, pc, sp, a, x, y, fatal, overflow_checks,
          last, pushed, base_sp, call, nops>>

----------------------------------------------------------------------------
(* Bytes, words and bit operations                                         *)

Byte == 0 .. 255
Word == 0 .. 65535

Pow2(n) == 2 ^ n

\* bit i of v
Bit(v, i) == (v \div Pow2(i)) % 2

\* a & b on 8 bits
BitAnd(p, q) ==
    Bit(p, 0) * Bit(q, 0) + 2 * Bit(p, 1) * Bit(q, 1)
  + 4 * Bit(p, 2) * Bit(q, 2) + 8 * Bit(p, 3) * Bit(q, 3)
  + 16 * Bit(p, 4) * Bit(q, 4) + 32 * Bit(p, 5) * Bit(q, 5)
  + 64 * Bit(p, 6) * Bit(q, 6) + 128 * Bit(p, 7) * Bit(q, 7)

\* a ^ b on 8 bits
BitXor(p, q) ==
    ((Bit(p, 0) + Bit(q, 0)) % 2) + 2 * ((Bit(p, 1) + Bit(q, 1)) % 2)
  + 4 * ((Bit(p, 2) + Bit(q, 2)) % 2) + 8 * ((Bit(p, 3) + Bit(q, 3)) % 2)
  + 16 * ((Bit(p, 4) + Bit(q, 4)) % 2) + 32 * ((Bit(p, 5) + Bit(q, 5)) % 2)
  + 64 * ((Bit(p, 6) + Bit(q, 6)) % 2) + 128 * ((Bit(p, 7) + Bit(q, 7)) % 2)

\* a | b on 8 bits
BitOr(p, q) == p + q - BitAnd(p, q)

\* !b on a u8
BitNot(b) == 255 - b

\* (w >> 8) as u8 and w as u8
HighByte(w) == (w \div 256) % 256
LowByte(w) == w % 256

\* (u16::from(msb) << 8) | u16::from(lsb)
MakeWord(msb, lsb) == msb * 256 + lsb

----------------------------------------------------------------------------
(* Vec<u8>                                                                 *)

EmptyFn == [i \in {} |-> 0]

\* Vec::new()
VecNew == [len |-> 0, nz |-> EmptyFn]

\* vec![0x00; n]
VecZeros(n) == [len |-> n, nz |-> EmptyFn]

\* v[i], for i < v.len
VecGet(v, i) == IF i \in DOMAIN v.nz THEN v.nz[i] ELSE 0

\* v[i] = b, for i < v.len
VecSet(v, i, b) ==
    [v EXCEPT !.nz = IF b = 0
                     THEN [j \in (DOMAIN @) \ {i} |-> @[j]]
                     ELSE (i :> b) @@ @]

\* v.resize(n, 0x00)
VecResize(v, n) ==
    [len |-> n, nz |-> [j \in {k \in DOMAIN v.nz : k < n} |-> v.nz[j]]]

\* the vector holding the bytes of the sequence s
VecOf(s) ==
    [len |-> Len(s),
     nz  |-> [j \in {k \in 0 .. Len(s) - 1 : s[k + 1] # 0} |-> s[j + 1]]]

\* the vector v with the bytes of the sequence s stored from index at on
VecPatch(v, at, s) ==
    [len |-> IF at + Len(s) > v.len THEN at + Len(s) ELSE v.len,
     nz  |-> [j \in ((DOMAIN v.nz) \ (at .. at + Len(s) - 1))
                    \cup {k \in at .. at + Len(s) - 1 : s[k - at + 1] # 0} |->
                 IF j \in at .. at + Len(s) - 1 THEN s[j - at + 1] ELSE v.nz[j]]]

----------------------------------------------------------------------------
(* Memory (cpu/memory.rs)                                                  *)

RAM_SIZE == \h0800
IO_SIZE == \h0028
SRAM_SIZE == \h2000
ROM_SIZE == \h8000

\* Memory::default
Memory_default ==
    [ram           |-> VecNew,
     io            |-> VecZeros(IO_SIZE),
     expansion_rom |-> VecNew,
     sram          |-> VecNew,
     rom           |-> VecNew]

\* Memory::load_ram: Err leaves the memory as it was
load_ram(mem, ram) ==
    IF ram.len > RAM_SIZE
    THEN [ok |-> FALSE, mem |-> mem]
    ELSE [ok |-> TRUE, mem |-> [mem EXCEPT !.ram = VecResize(ram, RAM_SIZE)]]

\* Memory::load_sram
load_sram(mem, sram) ==
    IF sram.len > SRAM_SIZE
    THEN [ok |-> FALSE, mem |-> mem]
    ELSE [ok |-> TRUE, mem |-> [mem EXCEPT !.sram = VecResize(sram, SRAM_SIZE)]]

\* Memory::load_rom
load_rom(mem, rom) ==
    IF rom.len # ROM_SIZE
    THEN [ok |-> FALSE, mem |-> mem]
    ELSE [ok |-> TRUE, mem |-> [mem EXCEPT !.rom = VecResize(rom, ROM_SIZE)]]

\* the match of read with the RAM index taken modulo 4 KiB
ReadRoute_ram_4k(addr) ==
    CASE addr <= \h1FFF -> [region |-> "ram", index |-> addr % \h1000]
      [] addr >= \h2000 /\ addr <= \h3FFF ->
             [region |-> "io", index |-> (addr - \h2000) % \h0008]
      [] addr >= \h4000 /\ addr <= \h401F ->
             [region |-> "io", index |-> addr - \h4000 + \h0008]
      [] addr >= \h4020 /\ addr <= \h5FFF ->
             [region |-> "expansion_rom", index |-> addr - \h4020]
      [] addr >= \h6000 /\ addr <= \h7FFF ->
             [region |-> "sram", index |-> addr - \h6000]
      [] addr >= \h8000 /\ addr <= \hFFFF ->
             [region |-> "rom", index |-> addr - \h8000]

\* the region and index an address is routed to by the match of read
ReadRoute(addr) ==
    CASE addr <= \h1FFF -> [region |-> "ram", index |-> addr % \h0800]
      [] addr >= \h2000 /\ addr <= \h3FFF ->
             [region |-> "io", index |-> (addr - \h2000) % \h0008]
      [] addr >= \h4000 /\ addr <= \h401F ->
             [region |-> "io", index |-> addr - \h4000 + \h0008]
      [] addr >= \h4020 /\ addr <= \h5FFF ->
             [region |-> "expansion_rom", index |-> addr - \h4020]
      [] addr >= \h6000 /\ addr <= \h7FFF ->
             [region |-> "sram", index |-> addr - \h6000]
      [] addr >= \h8000 /\ addr <= \hFFFF ->
             [region |-> "rom", index |-> addr - \h8000]

\* the indexing vec[index] of read: ok = FALSE is its out-of-bounds panic
ReadAt(mem, r) ==
    IF r.index < mem[r.region].len
    THEN [ok |-> TRUE, val |-> VecGet(mem[r.region], r.index)]
    ELSE [ok |-> FALSE, val |-> 0]

\* Memory::read
read(mem, addr) == ReadAt(mem, ReadRoute(addr))

\* the match of write with the APU/IO window stored from io[0] on
WriteRoute_io_unshifted(addr) ==
    CASE addr <= \h1FFF -> [region |-> "ram", index |-> addr % \h0800]
      [] addr >= \h2000 /\ addr <= \h3FFF ->
             [region |-> "io", index |-> (addr - \h2000) % \h0008]
      [] addr >= \h4000 /\ addr <= \h401F ->
             [region |-> "io", index |-> addr - \h4000]
      [] addr >= \h6000 /\ addr <= \h7FFF ->
             [region |-> "sram", index |-> addr - \h6000]
      [] OTHER -> [region |-> "none", index |-> 0]

\* the match of write with an arm that stores into PRG-ROM
WriteRoute_rom_writable(addr) ==
    CASE addr <= \h1FFF -> [region |-> "ram", index |-> addr % \h0800]
      [] addr >= \h2000 /\ addr <= \h3FFF ->
             [region |-> "io", index |-> (addr - \h2000) % \h0008]
      [] addr >= \h4000 /\ addr <= \h401F ->
             [region |-> "io", index |-> addr - \h4000 + \h0008]
      [] addr >= \h6000 /\ addr <= \h7FFF ->
             [region |-> "sram", index |-> addr - \h6000]
      [] addr >= \h8000 /\ addr <= \hFFFF ->
             [region |-> "rom", index |-> addr - \h8000]
      [] OTHER -> [region |-> "none", index |-> 0]

\* the region and index an address is routed to by the match of write;
\* region "none" is the arm  _ => panic!("Unable to write to ...")
WriteRoute(addr) ==
    CASE addr <= \h1FFF -> [region |-> "ram", index |-> addr % \h0800]
      [] addr >= \h2000 /\ addr <= \h3FFF ->
             [region |-> "io", index |-> (addr - \h2000) % \h0008]
      [] addr >= \h4000 /\ addr <= \h401F ->
             [region |-> "io", index |-> addr - \h4000 + \h0008]
      [] addr >= \h6000 /\ addr <= \h7FFF ->
             [region |-> "sram", index |-> addr - \h6000]
      [] OTHER -> [region |-> "none", index |-> 0]

\* the store vec[index] = byte of write, or the panic of its last arm
WriteAt(mem, r, byte) ==
    IF r.region = "none"
    THEN [ok |-> FALSE, msg |-> "Unable to write", mem |-> mem]
    ELSE IF r.index >= mem[r.region].len
         THEN [ok |-> FALSE, msg |-> "index out of bounds", mem |-> mem]
         ELSE [ok |-> TRUE, msg |-> "none",
               mem |-> [mem EXCEPT ![r.region] = VecSet(@, r.index, byte)]]

\* Memory::write
write(mem, addr, byte) == WriteAt(mem, WriteRoute(addr), byte)

----------------------------------------------------------------------------
(* Flags (cpu/flags.rs)                                                    *)

\* Flags::default
Flags_default ==
    [carry             |-> FALSE,
     zero              |-> FALSE,
     interrupt_disable |-> FALSE,
     break_command     |-> FALSE,
     overflow          |-> FALSE,
     negative          |-> FALSE]

\* Flags::set_from_byte
set_from_byte(f, byte) ==
    [f EXCEPT !.carry             = BitAnd(byte, 1) # 0,
              !.zero              = BitAnd(byte, 2) # 0,
              !.interrupt_disable = BitAnd(byte, 4) # 0,
              !.overflow          = BitAnd(byte, 64) # 0,
              !.negative          = BitAnd(byte, 128) # 0]

\* Flags::as_byte
as_byte(f) ==
    LET carry_byte    == IF f.carry THEN 1 ELSE 0
        zero_byte     == IF f.zero THEN 2 ELSE 0
        id_byte       == IF f.interrupt_disable THEN 4 ELSE 0
        overflow_byte == IF f.overflow THEN 64 ELSE 0
        negative_byte == IF f.negative THEN 128 ELSE 0
    IN BitOr(carry_byte, BitOr(zero_byte, BitOr(id_byte,
           BitOr(overflow_byte, negative_byte))))

\* Flags::set_zero_from_byte
set_zero_from_byte(f, byte) == [f EXCEPT !.zero = (byte = 0)]

\* Flags::set_negative_from_byte
set_negative_from_byte(f, byte) ==
    [f EXCEPT !.negative = (BitAnd(byte \div 128, 1) = 1)]

----------------------------------------------------------------------------
(* CPU (cpu/mod.rs): construction and the register-file helpers            *)

\* CPU::default
CPU_default ==
    [memory |-> Memory_default,
     flags  |-> Flags_default,
     pc     |-> 0,
     sp     |-> \hFD,
     a      |-> 0,
     x      |-> 0,
     y      |-> 0,
     fatal  |-> "none"]

\* the CPU the variables hold
Cur ==
    [memory |-> memory, flags |-> flags, pc |-> pc, sp |-> sp,
     a |-> a, x |-> x, y |-> y, fatal |-> fatal]

\* the variables take the fields of the CPU c
Commit(c) ==
    /\ memory' = c.memory
    /\ flags' = c.flags
    /\ pc' = c.pc
    /\ sp' = c.sp
    /\ a' = c.a
    /\ x' = c.x
    /\ y' = c.y
    /\ fatal' = c.fatal

Running(c) == c.fatal = "none"

Panic(c, msg) == IF Running(c) THEN [c EXCEPT !.fatal = msg] ELSE c

\* p + q on a u16: wraps in a release build, panics in a debug build
Add16(c, p, q) ==
    IF ~Running(c) THEN [cpu |-> c, val |-> 0]
    ELSE IF p + q > 65535
         THEN IF overflow_checks
              THEN [cpu |-> Panic(c, "attempt to add with overflow"), val |-> 0]
              ELSE [cpu |-> c, val |-> (p + q) % 65536]
         ELSE [cpu |-> c, val |-> p + q]

\* p - q on a u16
Sub16(c, p, q) ==
    IF ~Running(c) THEN [cpu |-> c, val |-> 0]
    ELSE IF p - q < 0
         THEN IF overflow_checks
              THEN [cpu |-> Panic(c, "attempt to subtract with overflow"), val |-> 0]
              ELSE [cpu |-> c, val |-> (p - q) % 65536]
         ELSE [cpu |-> c, val |-> p - q]

\* p + q on a u8
Add8(c, p, q) ==
    IF ~Running(c) THEN [cpu |-> c, val |-> 0]
    ELSE IF p + q > 255
         THEN IF overflow_checks
              THEN [cpu |-> Panic(c, "attempt to add with overflow"), val |-> 0]
              ELSE [cpu |-> c, val |-> (p + q) % 256]
         ELSE [cpu |-> c, val |-> p + q]

\* the CPU c after a read that returned r, or that panicked
ReadResult(c, r) ==
    IF r.ok THEN [cpu |-> c, val |-> r.val]
    ELSE [cpu |-> Panic(c, "index out of bounds"), val |-> 0]

\* self.memory.read(addr) inside a CPU method
MemRead(c, addr) ==
    IF ~Running(c) THEN [cpu |-> c, val |-> 0]
    ELSE ReadResult(c, read(c.memory, addr))

\* the CPU c after a write that returned r, or that panicked
WriteResult(c, r) ==
    IF r.ok THEN [c EXCEPT !.memory = r.mem] ELSE Panic(c, r.msg)

\* self.memory.write(addr, byte) inside a CPU method
MemWrite(c, addr, byte) ==
    IF ~Running(c) THEN c ELSE WriteResult(c, write(c.memory, addr, byte))

\* a read and a write at the address t.val a CPU method has computed
MemReadAt(t) == MemRead(t.cpu, t.val)
MemWriteAt(t, byte) == MemWrite(t.cpu, t.val, byte)

\* CPU::raw_read_byte
raw_read_byte(c, address) == MemRead(c, address)

\* CPU::raw_write_byte
raw_write_byte(c, address, byte) == MemWrite(c, address, byte)

\* self.pc = n.val, for the sum n of Add16
SetPcFrom(n) == IF Running(n.cpu) THEN [n.cpu EXCEPT !.pc = n.val] ELSE n.cpu

\* if progress_pc { self.pc += by } after the read r
ProgressPc(r, by, progress_pc) ==
    IF progress_pc
    THEN [cpu |-> SetPcFrom(Add16(r.cpu, r.cpu.pc, by)), val |-> r.val]
    ELSE r

\* CPU::read_next_byte
read_next_byte(c, progress_pc) == ProgressPc(MemRead(c, c.pc), 1, progress_pc)

\* (u16::from(msb) << 8) | u16::from(lsb) of two reads
JoinBytes(lsb, msb) == [cpu |-> msb.cpu, val |-> MakeWord(msb.val, lsb.val)]

\* the read of address + 1 that follows the read lsb of address
ReadHighByte(lsb, address) ==
    JoinBytes(lsb, MemReadAt(Add16(lsb.cpu, address, 1)))

\* CPU::read_double
read_double(c, address) == ReadHighByte(MemRead(c, address), address)

\* CPU::read_next_double
read_next_double(c, progress_pc) ==
    ProgressPc(read_double(c, c.pc), 2, progress_pc)

\* CPU::set_pc
set_pc(c, address) == IF Running(c) THEN [c EXCEPT !.pc = address] ELSE c

\* CPU::offset_pc: self.pc += offset for a positive offset byte, and
\* self.pc -= !offset + 1 for a negative one (!offset + 1 fits the u8 then)
offset_pc(c, offset) ==
    IF ~Running(c) THEN c
    ELSE IF BitAnd(offset, \h80) = 0
         THEN SetPcFrom(Add16(c, c.pc, offset))
         ELSE SetPcFrom(Sub16(c, c.pc, BitNot(offset) + 1))

\* self.sp = self.sp.wrapping_sub(1) that stops at 0x00 instead of wrapping
StackPushed_saturating(w) ==
    IF Running(w) THEN [w EXCEPT !.sp = IF w.sp = 0 THEN 0 ELSE w.sp - 1] ELSE w

\* self.sp = self.sp.wrapping_sub(1) after the write of push_stack
StackPushed(w) == IF Running(w) THEN [w EXCEPT !.sp = (w.sp - 1) % 256] ELSE w

\* CPU::push_stack
push_stack(c, byte) == StackPushed(MemWrite(c, c.sp + \h0100, byte))

\* pop_stack that reads the byte before it moves the stack pointer
pop_stack_read_first(c) ==
    IF ~Running(c) THEN [cpu |-> c, val |-> 0]
    ELSE LET r == MemRead(c, c.sp + \h0100)
         IN [cpu |-> IF Running(r.cpu)
                     THEN [r.cpu EXCEPT !.sp = (c.sp + 1) % 256] ELSE r.cpu,
             val |-> r.val]

\* CPU::pop_stack
pop_stack(c) ==
    IF ~Running(c) THEN [cpu |-> c, val |-> 0]
    ELSE LET c1 == [c EXCEPT !.sp = (c.sp + 1) % 256]
         IN MemRead(c1, c1.sp + \h0100)

----------------------------------------------------------------------------
(* CPU (cpu/mod.rs): the operand accessors                                 *)

\* the result of an accessor that has no byte to return
NoVal(c) == [cpu |-> c, val |-> 0]

\* p.wrapping_add(q) on a u16 and on a u8
WrappingAdd16(p, q) == (p + q) % 65536
WrappingAdd8(p, q) == (p + q) % 256
WrappingSub8(p, q) == (p - q) % 256

\* b + by taken as an address without the wrap of the u8
Offset8_unwrapped(b, by) == [cpu |-> b.cpu, val |-> b.val + by]

\* d.wrapping_add(by) on the u16 and on the u8 an accessor has read
Offset16(d, by) == [cpu |-> d.cpu, val |-> WrappingAdd16(d.val, by)]
Offset8(b, by) == [cpu |-> b.cpu, val |-> WrappingAdd8(b.val, by)]

\* b + by and d + by on the u8 and on the u16 an accessor has read
Plus8(b, by) == Add8(b.cpu, b.val, by)
Plus16(d, by) == Add16(d.cpu, d.val, by)

\* self.read_double(ptr) at the pointer an accessor has computed
ReadDoubleAt(ptr) == read_double(ptr.cpu, ptr.val)

\* the read of ptr.wrapping_add(1) that follows the read lsb of ptr
ReadHighWrapped(ptr, lsb) ==
    JoinBytes(lsb, MemRead(lsb.cpu, WrappingAdd8(ptr.val, 1)))

\* the two reads of the IndirectY arm of read_byte, in the zero page
ReadZeroPageDouble(ptr) == ReadHighWrapped(ptr, MemReadAt(ptr))

\* the address the match of CPU::read_byte computes for a memory operand
ReadAddress(c, addressing, progress_pc) ==
    CASE addressing = "Absolute" -> read_next_double(c, progress_pc)
      [] addressing = "AbsoluteX" ->
            Offset16(read_next_double(c, progress_pc), c.x)
      [] addressing = "AbsoluteY" ->
            Offset16(read_next_double(c, progress_pc), c.y)
      [] addressing = "IndirectX" ->
            ReadDoubleAt(Plus8(read_next_byte(c, progress_pc), c.x))
      [] addressing = "IndirectY" ->
            Offset16(ReadZeroPageDouble(read_next_byte(c, progress_pc)), c.y)
      [] addressing = "ZeroPage" -> read_next_byte(c, progress_pc)
      [] addressing = "ZeroPageX" ->
            Offset8(read_next_byte(c, progress_pc), c.x)
      [] addressing = "ZeroPageY" ->
            Offset8(read_next_byte(c, progress_pc), c.y)
      [] OTHER -> NoVal(Panic(c, "read_byte doesn't support addressing"))

\* CPU::read_byte
read_byte(c, addressing, progress_pc) ==
    IF ~Running(c) THEN NoVal(c)
    ELSE CASE addressing = "Immediate" -> read_next_byte(c, progress_pc)
           [] addressing = "Accumulator" -> [cpu |-> c, val |-> c.a]
           [] OTHER -> MemReadAt(ReadAddress(c, addressing, progress_pc))

\* the address the match of CPU::write_byte computes for a memory operand
WriteAddress(c, addressing, progress_pc) ==
    CASE addressing = "Absolute" -> read_next_double(c, TRUE)
      [] addressing = "AbsoluteX" -> Plus16(read_next_double(c, TRUE), c.x)
      [] addressing = "AbsoluteY" -> Plus16(read_next_double(c, TRUE), c.y)
      [] addressing = "IndirectX" ->
            ReadDoubleAt(Plus8(read_next_byte(c, progress_pc), c.x))
      [] addressing = "IndirectY" ->
            Plus16(ReadDoubleAt(read_next_byte(c, progress_pc)), c.y)
      [] addressing = "ZeroPage" -> read_next_byte(c, progress_pc)
      [] addressing = "ZeroPageX" ->
            Offset8(read_next_byte(c, progress_pc), c.x)
      [] addressing = "ZeroPageY" ->
            Offset8(read_next_byte(c, progress_pc), c.y)
      [] OTHER -> NoVal(Panic(c, "write_byte doesn't support addressing"))

\* CPU::write_byte
write_byte(c, addressing, byte, progress_pc) ==
    IF ~Running(c) THEN c
    ELSE IF addressing = "Accumulator"
         THEN [c EXCEPT !.a = byte]
         ELSE MemWriteAt(WriteAddress(c, addressing, progress_pc), byte)

\* the address the match of CPU::update_byte computes
UpdateAddress(c, addressing, progress_pc) ==
    CASE addressing = "Absolute" -> read_next_double(c, progress_pc)
      [] addressing = "AbsoluteX" ->
            Plus16(read_next_double(c, progress_pc), c.x)
      [] addressing = "AbsoluteY" ->
            Plus16(read_next_double(c, progress_pc), c.y)
      [] addressing = "IndirectX" ->
            ReadDoubleAt(Plus8(read_next_byte(c, progress_pc), c.x))
      [] addressing = "IndirectY" ->
            Plus16(ReadDoubleAt(read_next_byte(c, progress_pc)), c.y)
      [] addressing = "ZeroPage" -> read_next_byte(c, progress_pc)
      [] addressing = "ZeroPageX" ->
            Offset8(read_next_byte(c, progress_pc), c.x)
      [] OTHER -> NoVal(Panic(c, "update_byte doesn't support addressing"))

\* the closure handed to update_byte: |x| (x.wrapping_add(1), None) of inc,
\* |x| (x.wrapping_sub(1), None) of dec and, of dcp,
\* |x| { let (byte, carry) = x.overflowing_sub(1); (byte, Some(carry)) }
UpdateFn(update_fn, b) ==
    CASE update_fn = "inc" -> [byte |-> WrappingAdd8(b, 1), extra |-> "None"]
      [] update_fn = "dec" -> [byte |-> WrappingSub8(b, 1), extra |-> "None"]
      [] update_fn = "dcp" ->
            [byte |-> WrappingSub8(b, 1),
             extra |-> IF b = 0 THEN "Some(true)" ELSE "Some(false)"]

\* self.memory.write(address, byte) and the return of (byte, extra), for
\* the result u of update_fn on the byte read by r
UpdateWrite(address, r, u) ==
    [cpu |-> MemWrite(r.cpu, address, u.byte), val |-> u.byte,
     extra |-> u.extra]

\* update_fn(self.memory.read(address)) at the address t
UpdateRead(t, r, update_fn) == UpdateWrite(t.val, r, UpdateFn(update_fn, r.val))

\* CPU::update_byte
update_byte(c, addressing, update_fn, progress_pc) ==
    IF ~Running(c) THEN [cpu |-> c, val |-> 0, extra |-> "None"]
    ELSE UpdateRead(UpdateAddress(c, addressing, progress_pc),
                    MemReadAt(UpdateAddress(c, addressing, progress_pc)),
                    update_fn)

----------------------------------------------------------------------------
(* Instruction semantics (cpu/opcodes): each returns the CPU it leaves     *)
(* and the cycle count; the count of a run that panicked is never seen     *)

Done(c, cycles) == [cpu |-> c, cycles |-> IF Running(c) THEN cycles ELSE 0]

\* panic!("... doesn't support {:?} addressing")
Unsupported(c) == Done(Panic(c, "doesn't support addressing"), 0)

\* get_overflow that asks for either operand, not both, to differ in sign
get_overflow_either(m, n, result) ==
    BitAnd(BitOr(BitXor(m, result), BitXor(n, result)), \h80) # 0

\* opcodes::utils::get_overflow
get_overflow(m, n, result) ==
    BitAnd(BitAnd(BitXor(m, result), BitXor(n, result)), \h80) # 0

\* add_byte_to_accumulator that drops the carry of original_byte + 1
add_byte_to_accumulator_lost_carry(c, original_byte) ==
    LET byte     == IF c.flags.carry THEN (original_byte + 1) % 256 ELSE original_byte
        result   == (c.a + byte) % 256
        carry    == c.a + byte > 255
        overflow == get_overflow(original_byte, c.a, result)
        f1       == [c.flags EXCEPT !.overflow = overflow, !.carry = carry]
    IN [c EXCEPT !.a = result,
                 !.flags = set_negative_from_byte(set_zero_from_byte(f1, result),
                                                  result)]

\* opcodes::utils::add_byte_to_accumulator
add_byte_to_accumulator(c, original_byte) ==
    LET byte       == IF c.flags.carry THEN (original_byte + 1) % 256
                      ELSE original_byte
        byte_carry == c.flags.carry /\ original_byte + 1 > 255
        result     == (c.a + byte) % 256
        carry      == c.a + byte > 255
        overflow   == get_overflow(original_byte, c.a, result)
        f1         == [c.flags EXCEPT !.overflow = overflow,
                                      !.carry = (carry \/ byte_carry)]
    IN [c EXCEPT !.a = result,
                 !.flags = set_negative_from_byte(set_zero_from_byte(f1, result),
                                                  result)]

\* the cycle match shared by adc, sbc and cmp; 0 is the panicking arm
ReadClassCycles(addressing) ==
    CASE addressing \in {"Absolute", "AbsoluteX", "AbsoluteY", "ZeroPageX"} -> 4
      [] addressing = "Immediate" -> 2
      [] addressing = "IndirectX" -> 6
      [] addressing = "IndirectY" -> 5
      [] addressing = "ZeroPage" -> 3
      [] OTHER -> 0

\* the cycle match shared by cpx and cpy
IndexCompareCycles(addressing) ==
    CASE addressing = "Absolute" -> 4
      [] addressing = "Immediate" -> 2
      [] addressing = "ZeroPage" -> 3
      [] OTHER -> 0

\* add_byte_to_accumulator on the operand read r, then the return of cycles
AddOperand(r, cycles) ==
    IF Running(r.cpu)
    THEN Done(add_byte_to_accumulator(r.cpu, r.val), cycles)
    ELSE Done(r.cpu, 0)

\* opcodes::math::add::adc
adc(c, addressing) ==
    IF ReadClassCycles(addressing) = 0 THEN Unsupported(c)
    ELSE AddOperand(read_byte(c, addressing, TRUE), ReadClassCycles(addressing))

\* cpu.a &= byte for the operand read r, the Z and N flags of the result,
\* then the return of cycles
AndOperand(r, cycles) ==
    IF Running(r.cpu)
    THEN Done([r.cpu EXCEPT
                  !.a = BitAnd(@, r.val),
                  !.flags = set_negative_from_byte(
                                set_zero_from_byte(@, BitAnd(r.cpu.a, r.val)),
                                BitAnd(r.cpu.a, r.val))],
              cycles)
    ELSE Done(r.cpu, 0)

\* opcodes::bitwise::and::and, whose cycle match is that of adc
and(c, addressing) ==
    IF ReadClassCycles(addressing) = 0 THEN Unsupported(c)
    ELSE AndOperand(read_byte(c, addressing, TRUE), ReadClassCycles(addressing))

\* !cpu.read_byte(..) of sbc
Complement(r) == [cpu |-> r.cpu, val |-> BitNot(r.val)]

\* opcodes::math::subtract::sbc
sbc(c, addressing) ==
    IF ReadClassCycles(addressing) = 0 THEN Unsupported(c)
    ELSE AddOperand(Complement(read_byte(c, addressing, TRUE)),
                    ReadClassCycles(addressing))

\* the flag updates of a compare with carry set on byte < reg only
CompareFlags_strict(f, reg, byte) ==
    [f EXCEPT !.carry    = (byte < reg),
              !.zero     = (byte = reg),
              !.negative = (WrappingSub8(reg, byte) \div 128) > 0]

\* the flag updates shared by cmp, cpx and cpy for the register value reg
CompareFlags(f, reg, byte) ==
    [f EXCEPT !.carry    = (byte <= reg),
              !.zero     = (byte = reg),
              !.negative = (WrappingSub8(reg, byte) \div 128) > 0]

\* the flag updates of a compare of the register reg with the operand
\* read r, then the return of cycles
CompareOperand(r, reg, cycles) ==
    IF Running(r.cpu)
    THEN Done([r.cpu EXCEPT !.flags = CompareFlags(@, r.cpu[reg], r.val)], cycles)
    ELSE Done(r.cpu, 0)

\* opcodes::registers::compare::cmp
cmp(c, addressing) ==
    IF ReadClassCycles(addressing) = 0 THEN Unsupported(c)
    ELSE CompareOperand(read_byte(c, addressing, TRUE), "a",
                        ReadClassCycles(addressing))

\* opcodes::registers::compare::cpx
cpx(c, addressing) ==
    IF IndexCompareCycles(addressing) = 0 THEN Unsupported(c)
    ELSE CompareOperand(read_byte(c, addressing, TRUE), "x",
                        IndexCompareCycles(addressing))

\* opcodes::registers::compare::cpy
cpy(c, addressing) ==
    IF IndexCompareCycles(addressing) = 0 THEN Unsupported(c)
    ELSE CompareOperand(read_byte(c, addressing, TRUE), "y",
                        IndexCompareCycles(addressing))

\* opcodes::storage::store::sta
sta(c, addressing) ==
    LET cycles == CASE addressing \in {"Absolute", "AbsoluteX", "AbsoluteY",
                                       "ZeroPageX"} -> 4
                    [] addressing = "IndirectX" -> 6
                    [] addressing = "IndirectY" -> 5
                    [] addressing = "ZeroPage" -> 3
                    [] OTHER -> 0
    IN IF cycles = 0 THEN Unsupported(c)
       ELSE Done(write_byte(c, addressing, c.a, TRUE), cycles)

\* opcodes::storage::store::stx
stx(c, addressing) ==
    LET cycles == CASE addressing \in {"Absolute", "ZeroPageY"} -> 4
                    [] addressing = "ZeroPage" -> 3
                    [] OTHER -> 0
    IN IF cycles = 0 THEN Unsupported(c)
       ELSE Done(write_byte(c, addressing, c.x, TRUE), cycles)

\* opcodes::storage::store::sty
sty(c, addressing) ==
    LET cycles == CASE addressing \in {"Absolute", "ZeroPageX"} -> 4
                    [] addressing = "ZeroPage" -> 3
                    [] OTHER -> 0
    IN IF cycles = 0 THEN Unsupported(c)
       ELSE Done(write_byte(c, addressing, c.y, TRUE), cycles)

\* opcodes::stack::push::pha
pha(c) == Done(push_stack(c, c.a), 3)

\* opcodes::stack::push::php
php(c) == Done(push_stack(c, as_byte(c.flags)), 3)

\* cpu.a = byte for the byte popped by r
PulledA(r) ==
    IF Running(r.cpu) THEN Done([r.cpu EXCEPT !.a = r.val], 3)
    ELSE Done(r.cpu, 0)

\* opcodes::stack::pull::pla
pla(c) == PulledA(pop_stack(c))

\* cpu.flags.set_from_byte(byte) on the CPU c
WithFlags(c, byte) ==
    IF Running(c) THEN [c EXCEPT !.flags = set_from_byte(@, byte)] ELSE c

\* cpu.flags.set_from_byte(flags) for the byte popped by r
PulledFlags(r) ==
    IF Running(r.cpu) THEN Done(WithFlags(r.cpu, r.val), 3) ELSE Done(r.cpu, 0)

\* opcodes::stack::pull::plp
plp(c) == PulledFlags(pop_stack(c))

\* opcodes::storage::transfer::txs: the Z and N flags of X, then cpu.sp = cpu.x
txs(c) ==
    Done([c EXCEPT !.flags = set_negative_from_byte(
                                 set_zero_from_byte(@, c.x), c.x),
                   !.sp = c.x], 2)

\* opcodes::registers::set::sec
sec(c) == Done([c EXCEPT !.flags.carry = TRUE], 2)

\* opcodes::registers::clear::clc
clc(c) == Done([c EXCEPT !.flags.carry = FALSE], 2)

\* cpu.set_pc(address) and the return of cycles
JumpTo(address, cycles) == Done(set_pc(address.cpu, address.val), cycles)

\* the read of indirect_addr & !0xFF that follows the read lsb
ReadHighSamePage(ind, lsb) ==
    JoinBytes(lsb, MemRead(lsb.cpu, ind.val - (ind.val % 256)))

\* the Indirect arm of jmp without the branch on indirect_addr as u8 == 0xFF
JmpIndirect_next_page(ind) == ReadDoubleAt(ind)

\* the Indirect arm of jmp, with the pointer indirect_addr read
JmpIndirect(ind) ==
    IF LowByte(ind.val) = \hFF
    THEN ReadHighSamePage(ind, MemReadAt(ind))
    ELSE ReadDoubleAt(ind)

\* opcodes::jump::jmp::jmp
jmp(c, addressing) ==
    CASE addressing = "Absolute" -> JumpTo(read_next_double(c, TRUE), 3)
      [] addressing = "Indirect" ->
            JumpTo(JmpIndirect(read_next_double(c, TRUE)), 5)
      [] OTHER -> Unsupported(c)

\* the if of a branch after the read r of its operand: 2 when the branch is
\* not taken, else cpu.offset_pc(offset) and 3 (the offset is the operand
\* byte, widened at the call)
BranchOn(r, taken) ==
    IF ~Running(r.cpu) THEN Done(r.cpu, 0)
    ELSE IF taken THEN Done(offset_pc(r.cpu, r.val), 3)
    ELSE Done(r.cpu, 2)

\* opcodes::branch::carry
bcc(c) == BranchOn(read_next_byte(c, TRUE), ~c.flags.carry)
bcs(c) == BranchOn(read_next_byte(c, TRUE), c.flags.carry)

\* opcodes::branch::zero
bne(c) == BranchOn(read_next_byte(c, TRUE), ~c.flags.zero)
beq(c) == BranchOn(read_next_byte(c, TRUE), c.flags.zero)

\* opcodes::branch::negative
bpl(c) == BranchOn(read_next_byte(c, TRUE), ~c.flags.negative)
bmi(c) == BranchOn(read_next_byte(c, TRUE), c.flags.negative)

\* opcodes::branch::overflow
bvc(c) == BranchOn(read_next_byte(c, TRUE), ~c.flags.overflow)
bvs(c) == BranchOn(read_next_byte(c, TRUE), c.flags.overflow)

\* the two pushes of jsr with the low byte of the return address first
PushReturn_low_first(return_addr) ==
    push_stack(push_stack(return_addr.cpu, LowByte(return_addr.val)),
               HighByte(return_addr.val))

\* the two pushes of jsr: (return_addr >> 8) as u8, then return_addr as u8
PushReturn(return_addr) ==
    push_stack(push_stack(return_addr.cpu, HighByte(return_addr.val)),
               LowByte(return_addr.val))

\* jsr from  let return_addr = cpu.pc - 1  on, with the target read
JsrCall(address) ==
    Done(set_pc(PushReturn(Sub16(address.cpu, address.cpu.pc, 1)), address.val), 6)

\* opcodes::jump::jmp::jsr
jsr(c, addressing) ==
    IF addressing # "Absolute" THEN Unsupported(c)
    ELSE JsrCall(read_next_double(c, TRUE))

\* the pop of msb that follows the pop lsb
PopHigh(lsb) == JoinBytes(lsb, pop_stack(lsb.cpu))

\* the pops of lsb and msb of rts and rti
PopDouble(c) == PopHigh(pop_stack(c))

\* rts from  let pc = (..).wrapping_add(1)  on
RtsJump(d) == Done(set_pc(d.cpu, WrappingAdd16(d.val, 1)), 6)

\* opcodes::jump::ret::rts
rts(c) == RtsJump(PopDouble(c))

\* rti from  cpu.set_pc(..)  on, with the flag byte f and the address d
RtiJump(f, d) == Done(WithFlags(set_pc(d.cpu, d.val), f.val), 6)

\* rti after the pop f of the flag byte
RtiPop(f) == RtiJump(f, PopDouble(f.cpu))

\* opcodes::jump::ret::rti
rti(c) == RtiPop(pop_stack(c))

\* cpu.flags.set_carry(..), set_zero_from_byte(byte) and
\* set_negative_from_byte(byte) that end every shift and rotate, then the
\* return of cycles
ShiftDone(c, byte, carry, cycles) ==
    IF Running(c)
    THEN Done([c EXCEPT !.flags = set_negative_from_byte(
                                      set_zero_from_byte(
                                          [@ EXCEPT !.carry = carry], byte),
                                      byte)],
              cycles)
    ELSE Done(c, 0)

\* opcodes::bitwise::shift::asl
asl(c, addressing) ==
    LET cycles == CASE addressing = "Absolute" -> 6
                    [] addressing = "AbsoluteX" -> 7
                    [] addressing = "Accumulator" -> 2
                    [] addressing = "ZeroPage" -> 5
                    [] addressing = "ZeroPageX" -> 6
                    [] OTHER -> 0
        old_byte == read_byte(c, addressing, FALSE)
        byte == (old_byte.val * 2) % 256
    IN IF cycles = 0 THEN Unsupported(c)
       ELSE ShiftDone(write_byte(old_byte.cpu, addressing, byte, TRUE),
                      byte, old_byte.val \div 128 = 1, cycles)

\* opcodes::bitwise::shift::lsr
lsr(c, addressing) ==
    LET cycles == CASE addressing = "Absolute" -> 6
                    [] addressing = "AbsoluteX" -> 7
                    [] addressing = "Accumulator" -> 2
                    [] addressing = "ZeroPage" -> 5
                    [] addressing = "ZeroPageX" -> 6
                    [] OTHER -> 0
        old_byte == read_byte(c, addressing, FALSE)
        byte == old_byte.val \div 2
    IN IF cycles = 0 THEN Unsupported(c)
       ELSE ShiftDone(write_byte(old_byte.cpu, addressing, byte, TRUE),
                      byte, BitAnd(old_byte.val, 1) = 1, cycles)

\* the write of byte that slo, sre and rla make, then cpu.a set to acc
WriteThenA(c, addressing, byte, acc) ==
    IF Running(write_byte(c, addressing, byte, TRUE))
    THEN [write_byte(c, addressing, byte, TRUE) EXCEPT !.a = acc]
    ELSE write_byte(c, addressing, byte, TRUE)

\* opcodes::bitwise::shift::slo
slo(c, addressing) ==
    LET cycles == CASE addressing \in {"Absolute", "ZeroPageX"} -> 6
                    [] addressing \in {"AbsoluteX", "AbsoluteY"} -> 7
                    [] addressing \in {"IndirectX", "IndirectY"} -> 8
                    [] addressing = "ZeroPage" -> 5
                    [] OTHER -> 0
        old_byte == read_byte(c, addressing, FALSE)
        byte == (old_byte.val * 2) % 256
    IN IF cycles = 0 THEN Unsupported(c)
       ELSE ShiftDone(WriteThenA(old_byte.cpu, addressing, byte,
                                 BitOr(c.a, byte)),
                      byte, old_byte.val \div 128 = 1, cycles)

\* opcodes::bitwise::shift::sre
sre(c, addressing) ==
    LET cycles == CASE addressing \in {"Absolute", "ZeroPageX"} -> 6
                    [] addressing \in {"AbsoluteX", "AbsoluteY"} -> 7
                    [] addressing \in {"IndirectX", "IndirectY"} -> 8
                    [] addressing = "ZeroPage" -> 5
                    [] OTHER -> 0
        old_byte == read_byte(c, addressing, FALSE)
        byte == old_byte.val \div 2
    IN IF cycles = 0 THEN Unsupported(c)
       ELSE ShiftDone(WriteThenA(old_byte.cpu, addressing, byte,
                                 BitXor(c.a, byte)),
                      byte, old_byte.val \div 128 = 1, cycles)

\* opcodes::bitwise::rotate::rol
rol(c, addressing) ==
    LET cycles == CASE addressing = "Absolute" -> 6
                    [] addressing = "AbsoluteX" -> 7
                    [] addressing = "Accumulator" -> 2
                    [] addressing = "ZeroPage" -> 5
                    [] addressing = "ZeroPageX" -> 6
                    [] OTHER -> 0
        byte == read_byte(c, addressing, FALSE)
        rotated == IF c.flags.carry
                   THEN BitOr((byte.val * 2) % 256, 1)
                   ELSE (byte.val * 2) % 256
    IN IF cycles = 0 THEN Unsupported(c)
       ELSE ShiftDone(write_byte(byte.cpu, addressing, rotated, TRUE),
                      rotated, byte.val \div 128 = 1, cycles)

\* opcodes::bitwise::rotate::ror
ror(c, addressing) ==
    LET cycles == CASE addressing = "Absolute" -> 6
                    [] addressing = "AbsoluteX" -> 7
                    [] addressing = "Accumulator" -> 2
                    [] addressing = "ZeroPage" -> 5
                    [] addressing = "ZeroPageX" -> 6
                    [] OTHER -> 0
        byte == read_byte(c, addressing, FALSE)
        rotated == IF c.flags.carry
                   THEN BitOr(byte.val \div 2, 128)
                   ELSE byte.val \div 2
    IN IF cycles = 0 THEN Unsupported(c)
       ELSE ShiftDone(write_byte(byte.cpu, addressing, rotated, TRUE),
                      rotated, BitAnd(byte.val, 1) = 1, cycles)

\* opcodes::bitwise::rotate::rla
rla(c, addressing) ==
    LET cycles == CASE addressing \in {"Absolute", "ZeroPageX"} -> 6
                    [] addressing \in {"AbsoluteX", "AbsoluteY"} -> 7
                    [] addressing \in {"IndirectX", "IndirectY"} -> 8
                    [] addressing = "ZeroPage" -> 5
                    [] OTHER -> 0
        byte == read_byte(c, addressing, FALSE)
        rotated == IF c.flags.carry
                   THEN BitOr(byte.val \div 2, 128)
                   ELSE byte.val \div 2
    IN IF cycles = 0 THEN Unsupported(c)
       ELSE ShiftDone(WriteThenA(byte.cpu, addressing, rotated,
                                 BitAnd(c.a, rotated)),
                      rotated, BitAnd(byte.val, 1) = 1, cycles)

\* cpu.a set to acc, the Z and N flags of cpu.a, then the return of cycles:
\* the end of ora and eor
LogicDone(c, acc, cycles) ==
    IF Running(c)
    THEN Done([c EXCEPT !.a = acc,
                        !.flags = set_negative_from_byte(
                                      set_zero_from_byte(@, acc), acc)],
              cycles)
    ELSE Done(c, 0)

\* opcodes::bitwise::or::ora, whose cycle match is that of sbc
ora(c, addressing) ==
    IF ReadClassCycles(addressing) = 0 THEN Unsupported(c)
    ELSE LogicDone(read_byte(c, addressing, TRUE).cpu,
                   BitOr(c.a, read_byte(c, addressing, TRUE).val),
                   ReadClassCycles(addressing))

\* opcodes::bitwise::or::eor
eor(c, addressing) ==
    IF ReadClassCycles(addressing) = 0 THEN Unsupported(c)
    ELSE LogicDone(read_byte(c, addressing, TRUE).cpu,
                   BitXor(c.a, read_byte(c, addressing, TRUE).val),
                   ReadClassCycles(addressing))

\* set_zero_from_byte(byte) and set_negative_from_byte(byte) on the byte
\* update_byte returned in u, then the return of cycles: the end of inc
\* and dec
UpdateDone(u, cycles) ==
    IF Running(u.cpu)
    THEN Done([u.cpu EXCEPT !.flags = set_negative_from_byte(
                                          set_zero_from_byte(@, u.val),
                                          u.val)],
              cycles)
    ELSE Done(u.cpu, 0)

\* opcodes::math::increment::inc
inc(c, addressing) ==
    LET cycles == CASE addressing \in {"Absolute", "ZeroPageX"} -> 6
                    [] addressing = "AbsoluteX" -> 7
                    [] addressing = "ZeroPage" -> 5
                    [] OTHER -> 0
    IN IF cycles = 0 THEN Unsupported(c)
       ELSE UpdateDone(update_byte(c, addressing, "inc", TRUE), cycles)

\* opcodes::math::decrement::dec
dec(c, addressing) ==
    LET cycles == CASE addressing \in {"Absolute", "ZeroPageX"} -> 6
                    [] addressing = "AbsoluteX" -> 7
                    [] addressing = "ZeroPage" -> 5
                    [] OTHER -> 0
    IN IF cycles = 0 THEN Unsupported(c)
       ELSE UpdateDone(update_byte(c, addressing, "dec", TRUE), cycles)

\* cpu.flags.set_carry(carry) for the carry update_byte returned in u, then
\* the return of cycles: the end of dcp
DcpDone(u, cycles) ==
    IF Running(u.cpu)
    THEN Done([u.cpu EXCEPT !.flags.carry = (u.extra = "Some(true)")], cycles)
    ELSE Done(u.cpu, 0)

\* opcodes::math::decrement::dcp
dcp(c, addressing) ==
    LET cycles == CASE addressing = "ZeroPage" -> 5
                    [] addressing \in {"Absolute", "ZeroPageX"} -> 6
                    [] addressing \in {"AbsoluteX", "AbsoluteY"} -> 7
                    [] addressing \in {"IndirectX", "IndirectY"} -> 8
                    [] OTHER -> 0
    IN IF cycles = 0 THEN Unsupported(c)
       ELSE DcpDone(update_byte(c, addressing, "dcp", TRUE), cycles)

\* opcodes::system::nop that leaves the PC where the opcode fetch put it
nop_no_offset(c, size, addressing) ==
    IF addressing \in {"Immediate", "ZeroPage", "ZeroPageX", "Absolute",
                       "AbsoluteX"}
    THEN Done(c, IF addressing = "Immediate" THEN 2
                 ELSE IF addressing = "ZeroPage" THEN 3 ELSE 4)
    ELSE Unsupported(c)

\* opcodes::system::nop: cpu.offset_pc(size as u8), then the cycle match
nop(c, size, addressing) ==
    IF addressing \in {"Immediate", "ZeroPage", "ZeroPageX", "Absolute",
                       "AbsoluteX"}
    THEN Done(offset_pc(c, size),
              IF addressing = "Immediate" THEN 2
              ELSE IF addressing = "ZeroPage" THEN 3 ELSE 4)
    ELSE Unsupported(offset_pc(c, size))

----------------------------------------------------------------------------
(* CPU::step (cpu/mod.rs)                                                  *)

\* the match of CPU::step: entry b + 1 is the arm of the opcode byte b, its
\* semantic function, the addressing mode and (for nop) the size it passes;
\* sem "unknown" is the arm  _ => panic!("Unknown opcode: ...")
NoEntry == [sem |-> "unknown", mode |-> "Implied", size |-> 0]

E(sem, mode, size) == [sem |-> sem, mode |-> mode, size |-> size]

OpcodeTable == <<
    \* 0x00 .. 0x0F
    NoEntry, E("ora", "IndirectX", 0), NoEntry, E("slo", "IndirectX", 0),
    E("nop", "ZeroPage", 1), E("ora", "ZeroPage", 0), E("asl", "ZeroPage", 0), E("slo", "ZeroPage", 0),
    E("php", "Implied", 0), E("ora", "Immediate", 0), E("asl", "Accumulator", 0), E("aac", "Immediate", 0),
    E("nop", "Absolute", 2), E("ora", "Absolute", 0), E("asl", "Absolute", 0), E("slo", "Absolute", 0),
    \* 0x10 .. 0x1F
    E("bpl", "Implied", 0), E("ora", "IndirectY", 0), NoEntry, E("slo", "IndirectY", 0),
    E("nop", "ZeroPageX", 1), E("ora", "ZeroPageX", 0), E("asl", "ZeroPageX", 0), E("slo", "ZeroPageX", 0),
    E("clc", "Implied", 0), E("ora", "AbsoluteY", 0), E("nop", "Immediate", 0), E("slo", "AbsoluteY", 0),
    E("nop", "AbsoluteX", 2), E("ora", "AbsoluteX", 0), E("asl", "AbsoluteX", 0), E("slo", "AbsoluteX", 0),
    \* 0x20 .. 0x2F
    E("jsr", "Absolute", 0), E("and", "IndirectX", 0), NoEntry, E("rla", "IndirectX", 0),
    E("bit", "ZeroPage", 0), E("and", "ZeroPage", 0), E("rol", "ZeroPage", 0), E("rla", "ZeroPage", 0),
    E("plp", "Implied", 0), E("and", "Immediate", 0), E("rol", "Accumulator", 0), E("aac", "Immediate", 0),
    E("bit", "Absolute", 0), E("and", "Absolute", 0), E("rol", "Absolute", 0), E("rla", "Absolute", 0),
    \* 0x30 .. 0x3F
    E("bmi", "Implied", 0), E("and", "IndirectY", 0), NoEntry, E("rla", "IndirectY", 0),
    E("nop", "ZeroPageX", 1), E("and", "ZeroPageX", 0), E("rol", "ZeroPageX", 0), E("rla", "ZeroPageX", 0),
    E("sec", "Implied", 0), E("and", "AbsoluteY", 0), E("nop", "Immediate", 0), E("rla", "AbsoluteY", 0),
    E("nop", "AbsoluteX", 2), E("and", "AbsoluteX", 0), E("rol", "AbsoluteX", 0), E("rla", "AbsoluteX", 0),
    \* 0x40 .. 0x4F
    E("rti", "Implied", 0), E("eor", "IndirectX", 0), NoEntry, E("nop", "IndirectX", 2),
    E("nop", "ZeroPage", 1), E("eor", "ZeroPage", 0), E("lsr", "ZeroPage", 0), E("sre", "ZeroPage", 0),
    E("pha", "Implied", 0), E("eor", "Immediate", 0), E("lsr", "Accumulator", 0), E("asr", "Immediate", 0),
    E("jmp", "Absolute", 0), E("eor", "Absolute", 0), E("lsr", "Absolute", 0), E("sre", "Absolute", 0),
    \* 0x50 .. 0x5F
    E("bvc", "Implied", 0), E("eor", "IndirectY", 0), NoEntry, E("nop", "IndirectY", 2),
    E("nop", "ZeroPageX", 1), E("eor", "ZeroPageX", 0), E("lsr", "ZeroPageX", 0), E("sre", "ZeroPageX", 0),
    E("cli", "Implied", 0), E("eor", "AbsoluteY", 0), E("nop", "Immediate", 0), E("sre", "AbsoluteX", 0),
    E("nop", "AbsoluteY", 2), E("eor", "AbsoluteX", 0), E("lsr", "AbsoluteX", 0), E("sre", "AbsoluteX", 0),
    \* 0x60 .. 0x6F
    E("rts", "Implied", 0), E("adc", "IndirectX", 0), NoEntry, NoEntry,
    E("nop", "ZeroPage", 1), E("adc", "ZeroPage", 0), E("ror", "ZeroPage", 0), NoEntry,
    E("pla", "Implied", 0), E("adc", "Immediate", 0), E("ror", "Accumulator", 0), E("arr", "Immediate", 0),
    E("jmp", "Indirect", 0), E("adc", "Absolute", 0), E("ror", "Absolute", 0), NoEntry,
    \* 0x70 .. 0x7F
    E("bvs", "Implied", 0), E("adc", "IndirectY", 0), NoEntry, NoEntry,
    E("nop", "ZeroPageX", 1), E("adc", "ZeroPageX", 0), E("ror", "ZeroPageX", 0), NoEntry,
    E("sei", "Implied", 0), E("adc", "AbsoluteY", 0), E("nop", "Immediate", 0), NoEntry,
    E("nop", "AbsoluteX", 2), E("adc", "AbsoluteX", 0), E("ror", "AbsoluteX", 0), NoEntry,
    \* 0x80 .. 0x8F
    E("nop", "Immediate", 1), E("sta", "IndirectX", 0), E("nop", "Immediate", 1), NoEntry,
    E("sty", "ZeroPage", 0), E("sta", "ZeroPage", 0), E("stx", "ZeroPage", 0), NoEntry,
    E("dey", "Implied", 0), E("nop", "Immediate", 1), E("txa", "Implied", 0), NoEntry,
    E("sty", "Absolute", 0), E("sta", "Absolute", 0), E("stx", "Absolute", 0), NoEntry,
    \* 0x90 .. 0x9F
    E("bcc", "Implied", 0), E("sta", "IndirectY", 0), NoEntry, NoEntry,
    E("sty", "ZeroPageX", 0), E("sta", "ZeroPageX", 0), E("stx", "ZeroPageY", 0), NoEntry,
    E("tya", "Implied", 0), E("sta", "AbsoluteY", 0), E("txs", "Implied", 0), NoEntry,
    NoEntry, E("sta", "AbsoluteX", 0), NoEntry, NoEntry,
    \* 0xA0 .. 0xAF
    E("ldy", "Immediate", 0), E("lda", "IndirectX", 0), E("ldx", "Immediate", 0), E("lax", "IndirectX", 0),
    E("ldy", "ZeroPage", 0), E("lda", "ZeroPage", 0), E("ldx", "ZeroPage", 0), E("lax", "ZeroPage", 0),
    E("tay", "Implied", 0), E("lda", "Immediate", 0), E("tax", "Implied", 0), E("lax", "Immediate", 0),
    E("ldy", "Absolute", 0), E("lda", "Absolute", 0), E("ldx", "Absolute", 0), E("lax", "Absolute", 0),
    \* 0xB0 .. 0xBF
    E("bcs", "Implied", 0), E("lda", "IndirectY", 0), NoEntry, E("lax", "IndirectY", 0),
    E("ldy", "ZeroPageX", 0), E("lda", "ZeroPageX", 0), E("ldx", "ZeroPageY", 0), E("lax", "ZeroPageY", 0),
    E("clv", "Implied", 0), E("lda", "AbsoluteY", 0), E("tsx", "Implied", 0), NoEntry,
    E("ldy", "AbsoluteX", 0), E("lda", "AbsoluteX", 0), E("ldx", "AbsoluteY", 0), E("lax", "AbsoluteY", 0),
    \* 0xC0 .. 0xCF
    E("cpy", "Immediate", 0), E("cmp", "IndirectX", 0), E("nop", "Immediate", 1), E("dcp", "IndirectX", 0),
    E("cpy", "ZeroPage", 0), E("cmp", "ZeroPage", 0), E("dec", "ZeroPage", 0), E("dcp", "ZeroPage", 0),
    E("iny", "Implied", 0), E("cmp", "Immediate", 0), E("dex", "Implied", 0), E("axs", "Immediate", 0),
    E("cpy", "Absolute", 0), E("cmp", "Absolute", 0), E("dec", "Absolute", 0), E("dcp", "Absolute", 0),
    \* 0xD0 .. 0xDF
    E("bne", "Implied", 0), E("cmp", "IndirectY", 0), NoEntry, E("dcp", "IndirectY", 0),
    E("nop", "ZeroPageX", 1), E("cmp", "ZeroPageX", 0), E("dec", "ZeroPageX", 0), E("dcp", "ZeroPageX", 0),
    E("cld", "Implied", 0), E("cmp", "AbsoluteY", 0), E("nop", "Immediate", 0), E("dcp", "AbsoluteY", 0),
    E("nop", "AbsoluteX", 2), E("cmp", "AbsoluteX", 0), E("dec", "AbsoluteX", 0), E("dcp", "AbsoluteX", 0),
    \* 0xE0 .. 0xEF
    E("cpx", "Immediate", 0), E("sbc", "IndirectX", 0), E("nop", "Immediate", 1), NoEntry,
    E("cpx", "ZeroPage", 0), E("sbc", "ZeroPage", 0), E("inc", "ZeroPage", 0), NoEntry,
    E("inx", "Implied", 0), E("sbc", "Immediate", 0), E("nop", "Immediate", 0), E("sbc", "Immediate", 0),
    E("cpx", "Absolute", 0), E("sbc", "Absolute", 0), E("inc", "Absolute", 0), NoEntry,
    \* 0xF0 .. 0xFF
    E("beq", "Implied", 0), E("sbc", "IndirectY", 0), NoEntry, NoEntry,
    E("nop", "ZeroPageX", 1), E("sbc", "ZeroPageX", 0), E("inc", "ZeroPageX", 0), NoEntry,
    E("sed", "Implied", 0), E("sbc", "AbsoluteY", 0), E("nop", "Immediate", 0), NoEntry,
    E("nop", "AbsoluteX", 2), E("sbc", "AbsoluteX", 0), E("inc", "AbsoluteX", 0), NoEntry
>>

\* the arm of the opcode byte
Dispatch(byte) == OpcodeTable[byte + 1]

\* the semantic functions modelled so far; step is not taken on the others
Modelled ==
    {"unknown", "adc", "sbc", "cmp", "cpx", "cpy", "sta", "stx", "sty",
     "pha", "php", "pla", "plp", "sec", "clc", "jsr", "rts", "rti", "jmp",
     "bcc", "bcs", "bne", "beq", "bpl", "bmi", "bvc", "bvs", "and",
     "txs", "asl", "lsr", "slo", "sre", "rol", "ror", "rla", "ora", "eor",
     "inc", "dec", "dcp", "nop"}

\* the two upper-case hexadecimal digits of {:02X?} for a byte
HexDigit(n) ==
    <<"0", "1", "2", "3", "4", "5", "6", "7",
      "8", "9", "A", "B", "C", "D", "E", "F">>[n + 1]
HexByte(byte) == HexDigit(byte \div 16) \o HexDigit(byte % 16)

\* a last arm that passes over the byte as a two-cycle instruction
UnknownOpcode_skipped(c, byte) == Done(c, 2)

\* _ => panic!("Unknown opcode: 0x{:02X?}", byte)
UnknownOpcode(c, byte) ==
    Done(Panic(c, "Unknown opcode: 0x" \o HexByte(byte)), 0)

\* the call the arm e of step makes for the opcode byte
Execute(c, e, byte) ==
    CASE e.sem = "adc" -> adc(c, e.mode)
      [] e.sem = "sbc" -> sbc(c, e.mode)
      [] e.sem = "cmp" -> cmp(c, e.mode)
      [] e.sem = "cpx" -> cpx(c, e.mode)
      [] e.sem = "cpy" -> cpy(c, e.mode)
      [] e.sem = "sta" -> sta(c, e.mode)
      [] e.sem = "stx" -> stx(c, e.mode)
      [] e.sem = "sty" -> sty(c, e.mode)
      [] e.sem = "pha" -> pha(c)
      [] e.sem = "php" -> php(c)
      [] e.sem = "pla" -> pla(c)
      [] e.sem = "plp" -> plp(c)
      [] e.sem = "sec" -> sec(c)
      [] e.sem = "clc" -> clc(c)
      [] e.sem = "jsr" -> jsr(c, e.mode)
      [] e.sem = "rts" -> rts(c)
      [] e.sem = "rti" -> rti(c)
      [] e.sem = "jmp" -> jmp(c, e.mode)
      [] e.sem = "and" -> and(c, e.mode)
      [] e.sem = "txs" -> txs(c)
      [] e.sem = "bcc" -> bcc(c)
      [] e.sem = "bcs" -> bcs(c)
      [] e.sem = "bne" -> bne(c)
      [] e.sem = "beq" -> beq(c)
      [] e.sem = "bpl" -> bpl(c)
      [] e.sem = "bmi" -> bmi(c)
      [] e.sem = "bvc" -> bvc(c)
      [] e.sem = "bvs" -> bvs(c)
      [] e.sem = "asl" -> asl(c, e.mode)
      [] e.sem = "lsr" -> lsr(c, e.mode)
      [] e.sem = "slo" -> slo(c, e.mode)
      [] e.sem = "sre" -> sre(c, e.mode)
      [] e.sem = "rol" -> rol(c, e.mode)
      [] e.sem = "ror" -> ror(c, e.mode)
      [] e.sem = "rla" -> rla(c, e.mode)
      [] e.sem = "ora" -> ora(c, e.mode)
      [] e.sem = "eor" -> eor(c, e.mode)
      [] e.sem = "inc" -> inc(c, e.mode)
      [] e.sem = "dec" -> dec(c, e.mode)
      [] e.sem = "dcp" -> dcp(c, e.mode)
      [] e.sem = "nop" -> nop(c, e.size, e.mode)
      [] e.sem = "unknown" -> UnknownOpcode(c, byte)

\* what step returns after the fetch byte and the call result r
StepResult(byte, r) ==
    [cpu |-> r.cpu, opcode |-> byte.val, cycles |-> r.cycles]

\* step after the fetch of the opcode byte
StepExecute(byte) ==
    StepResult(byte, IF Running(byte.cpu)
                     THEN Execute(byte.cpu, Dispatch(byte.val), byte.val)
                     ELSE Done(byte.cpu, 0))

\* CPU::step(false): the CPU it leaves, the opcode byte and Some(cycles)
step(c) == StepExecute(read_next_byte(c, TRUE))

----------------------------------------------------------------------------
(* The iNES loader (cpu/mod.rs): load_file, process_file, nrom             *)
(* a file is the Vec<u8> read_to_end has filled                            *)

\* &buffer[from..to], for to <= buffer.len
VecSlice(buffer, from, to) ==
    [len |-> to - from,
     nz  |-> [j \in {k - from : k \in {i \in DOMAIN buffer.nz :
                                          i >= from /\ i < to}} |->
                 buffer.nz[j + from]]]

\* bank.extend(more)
VecExtend(bank, more) ==
    [len |-> bank.len + more.len,
     nz  |-> [j \in (DOMAIN bank.nz) \cup {k + bank.len : k \in DOMAIN more.nz} |->
                 IF j < bank.len THEN bank.nz[j] ELSE more.nz[j - bank.len]]]

\* what a loader function returns: Ok(()) or Err(err), and the CPU it leaves
LoadOk(c) == [cpu |-> c, ok |-> TRUE, err |-> "none"]
LoadErr(c, err) == [cpu |-> c, ok |-> FALSE, err |-> err]

\* a panic inside a loader function: nothing is returned
LoadPanic(c, msg) == [cpu |-> Panic(c, msg), ok |-> FALSE, err |-> "none"]

\* cpu.memory.load_rom(bank)?
LoadBank(c, r) ==
    IF r.ok THEN LoadOk([c EXCEPT !.memory = r.mem])
    ELSE LoadErr(c, "Invalid ROM size")

\* let bank_offset = if trainer { 16 + 512 } else { 16 } that never skips
\* the trainer
BankOffset_no_trainer(buffer) == 16

\* let trainer = buffer[6] & 0b0000_0100 > 0 and bank_offset
BankOffset(buffer) ==
    IF BitAnd(VecGet(buffer, 6), 4) > 0 THEN 16 + 512 ELSE 16

\* the arms of the match on buffer[4], for the bank offset at
NromBanks(c, buffer, at) ==
    CASE VecGet(buffer, 4) = 1 ->
            IF at + \h4000 > buffer.len
            THEN LoadPanic(c, "range end index out of range")
            ELSE LoadBank(c, load_rom(c.memory,
                     VecExtend(VecSlice(buffer, at, at + \h4000),
                               VecSlice(buffer, at, at + \h4000))))
      [] VecGet(buffer, 4) = 2 ->
            IF at + \h8000 > buffer.len
            THEN LoadPanic(c, "range end index out of range")
            ELSE LoadBank(c, load_rom(c.memory,
                                      VecSlice(buffer, at, at + \h8000)))
      [] OTHER -> LoadErr(c, "NROM only supports 1 or 2 PRG ROM banks")

\* nrom
nrom(c, buffer) ==
    IF buffer.len <= 6 THEN LoadPanic(c, "index out of bounds")
    ELSE NromBanks(c, buffer, BankOffset(buffer))

\* buffer[0..=3] != [b'N', b'E', b'S', 0x1A]
BadMagic(buffer) ==
    \E i \in 0 .. 3 : VecGet(buffer, i) # <<\h4E, \h45, \h53, \h1A>>[i + 1]

\* the mapper number taken from byte 6 alone
Mapper_low_nibble(buffer) == BitAnd(VecGet(buffer, 6), \hF0) \div 16

\* (rom_control_byte1 & 0b1111_0000) >> 4 | (rom_control_byte2 & 0b1111_0000)
Mapper(buffer) ==
    BitOr(BitAnd(VecGet(buffer, 6), \hF0) \div 16,
          BitAnd(VecGet(buffer, 7), \hF0))

\* CPU::process_file
process_file(c, buffer) ==
    IF buffer.len < 4 THEN LoadPanic(c, "range end index out of range")
    ELSE IF BadMagic(buffer) THEN LoadErr(c, "Invalid magic header")
    ELSE IF buffer.len <= 7 THEN LoadPanic(c, "index out of bounds")
    ELSE IF Mapper(buffer) = 0 THEN nrom(c, buffer)
    ELSE LoadErr(c, "Unsupported mapper")

\* CPU::reset_vector
reset_vector(c) == SetPcFrom(read_double(c, \hFFFC))

\* self.memory.load_ram(Vec::new())?; self.memory.load_sram(Vec::new())?;
\* self.reset_vector(); Ok(()): neither load can fail on an empty vector
LoadRest(c) ==
    LoadOk(reset_vector(
        [c EXCEPT !.memory = load_sram(load_ram(@, VecNew).mem, VecNew).mem]))

\* self.process_file(&buffer[..])? and what follows it
LoadProcessed(r) == IF r.ok THEN LoadRest(r.cpu) ELSE r

\* CPU::load_file, from the bytes read_to_end returned
load_file(c, buffer) == LoadProcessed(process_file(c, buffer))

----------------------------------------------------------------------------
(* The Blargg harness (tests/instr_test_v5/mod.rs, utils.rs)               *)

\* utils::read_blargg_message: the loop from index on, with the bytes pushed
\* so far; String::from_utf8(bytes).unwrap() returns the bytes themselves
\* for the ASCII messages the model hands it
RECURSIVE read_blargg_message(_, _, _)
read_blargg_message(c, index, bytes) ==
    IF ~Running(c) THEN [cpu |-> c, val |-> bytes]
    ELSE IF ~read(c.memory, index).ok
         THEN [cpu |-> Panic(c, "index out of bounds"), val |-> bytes]
    ELSE IF read(c.memory, index).val = 0 THEN [cpu |-> c, val |-> bytes]
    ELSE read_blargg_message(Add16(c, index, 1).cpu, Add16(c, index, 1).val,
                             Append(bytes, read(c.memory, index).val))

\* what one turn of the loop of run_blargg_test did: outcome "step" with the
\* opcode and cycles of cpu.step(false), "passed" for the break, "failed"
\* for a panic of the harness with the status byte and the message it read
Turn(c, outcome, arg, report) ==
    [cpu |-> c, outcome |-> outcome, arg |-> arg, report |-> report]

\* cpu.step(false) at the end of the loop body
TurnStep(r) == Turn(r.cpu, "step", r.opcode, r.cycles)

\* panic!("\nError code: 0x{:02X?}\n{}\n", byte, read_blargg_message(..))
TurnError(byte, msg) ==
    Turn(Panic(msg.cpu, "Error code: 0x" \o HexByte(byte)), "failed", byte,
         msg.val)

\* match cpu.memory.read(0x6000), then cpu.step(false) unless it left
TurnStatus(c, byte) ==
    CASE byte = \h00 -> Turn(c, "passed", byte, <<>>)
      [] byte = \h80 -> TurnStep(step(c))
      [] byte = \h81 -> Turn(Panic(c, "81??"), "failed", byte, <<>>)
      [] OTHER -> TurnError(byte, read_blargg_message(c, \h6004, <<>>))

\* [0xDE, 0xB0, 0x61] == [read(0x6001), read(0x6002), read(0x6003)]
Signed(mem) ==
    <<read(mem, \h6001).val, read(mem, \h6002).val, read(mem, \h6003).val>>
        = <<\hDE, \hB0, \h61>>

\* one turn of the loop of run_blargg_test; the reads of SRAM panic when it
\* is not loaded
run_blargg_turn(c) ==
    IF ~read(c.memory, \h6000).ok
    THEN Turn(Panic(c, "index out of bounds"), "failed", 0, <<>>)
    ELSE IF Signed(c.memory) THEN TurnStatus(c, read(c.memory, \h6000).val)
    ELSE TurnStep(step(c))

----------------------------------------------------------------------------
(* Observers and the harness operations shared by the specifications       *)

\* the variables hold the CPU c
Holds(c) ==
    /\ memory = c.memory
    /\ flags = c.flags
    /\ pc = c.pc
    /\ sp = c.sp
    /\ a = c.a
    /\ x = c.x
    /\ y = c.y
    /\ fatal = c.fatal

\* the record of an operation op with argument arg (an address, an opcode
\* or a byte), byte val and result ret, run on Cur
Did(op, arg, val, ret) ==
    [op |-> op, arg |-> arg, val |-> val, ret |-> ret,
     pre |-> Cur, pushed |-> pushed]

NoCall == [active |-> FALSE, P |-> 0, S |-> 0, T |-> 0]

\* nothing has run yet on the CPU c
Fresh(c) ==
    /\ Holds(c)
    /\ overflow_checks \in BOOLEAN
    /\ last = [op |-> "none", arg |-> 0, val |-> 0, ret |-> 0,
               pre |-> c, pushed |-> <<>>]
    /\ pushed = <<>>
    /\ base_sp = c.sp
    /\ call = NoCall
    /\ nops = 0

\* number of stack operations and of steps in one run
MaxOps == 6

\* number of raw writes in one run
MaxWrites == 2

CanRun == fatal = "none" /\ nops < MaxOps

\* cpu.memory.load_ram(ram).expect(..): an Err is the panic of expect
LoadRam(ram) ==
    /\ fatal = "none"
    /\ memory.ram.len = 0
    /\ LET r == load_ram(memory, ram)
       IN Commit(IF r.ok THEN [Cur EXCEPT !.memory = r.mem]
                 ELSE Panic(Cur, "Failed to load ram"))
    /\ last' = Did("load_ram", ram.len, 0, 0)
    /\ UNCHANGED <<overflow_checks, pushed, base_sp, call, nops>>

\* cpu.memory.load_sram(Vec::new()).expect(..)
LoadSram ==
    /\ fatal = "none"
    /\ memory.sram.len = 0
    /\ LET r == load_sram(memory, VecNew)
       IN Commit(IF r.ok THEN [Cur EXCEPT !.memory = r.mem]
                 ELSE Panic(Cur, "Failed to load sram"))
    /\ last' = Did("load_sram", 0, 0, 0)
    /\ UNCHANGED <<overflow_checks, pushed, base_sp, call, nops>>

\* cpu.memory.load_rom(rom).expect(..), once
LoadRom(rom) ==
    /\ fatal = "none"
    /\ memory.rom.len = 0
    /\ LET r == load_rom(memory, rom)
       IN Commit(IF r.ok THEN [Cur EXCEPT !.memory = r.mem]
                 ELSE Panic(Cur, "Failed to load rom"))
    /\ last' = Did("load_rom", rom.len, 0, 0)
    /\ UNCHANGED <<overflow_checks, pushed, base_sp, call, nops>>

\* cpu.raw_write_byte(addr, byte), which is Memory::write
RawWrite(addr, byte) ==
    /\ fatal = "none"
    /\ nops < MaxWrites
    /\ Commit(raw_write_byte(Cur, addr, byte))
    /\ last' = Did("write", addr, byte, 0)
    /\ nops' = nops + 1
    /\ UNCHANGED <<overflow_checks, pushed, base_sp, call>>

\* the variables after push_stack(byte) left the CPU c
Pushed(c, byte) ==
    /\ Commit(c)
    /\ pushed' = IF Running(c) THEN Append(pushed, byte) ELSE pushed

\* cpu.push_stack(byte)
PushStack(byte) ==
    /\ CanRun
    /\ Pushed(push_stack(Cur, byte), byte)
    /\ last' = Did("push_stack", byte, byte, 0)
    /\ nops' = nops + 1
    /\ UNCHANGED <<overflow_checks, base_sp, call>>

\* the variables after pop_stack() returned r
Popped(r) ==
    /\ Commit(r.cpu)
    /\ last' = Did("pop_stack", 0, 0, r.val)
    /\ base_sp' = IF Len(pushed) = 0 THEN r.cpu.sp ELSE base_sp

\* cpu.pop_stack()
PopStack ==
    /\ CanRun
    /\ Popped(pop_stack(Cur))
    /\ pushed' = IF Len(pushed) = 0 THEN pushed
                 ELSE SubSeq(pushed, 1, Len(pushed) - 1)
    /\ nops' = nops + 1
    /\ UNCHANGED <<overflow_checks, call>>

\* the opcode at PC, when it can be read, has a modelled semantic function
FetchModelled(peek) == peek.ok => Dispatch(peek.val).sem \in Modelled

\* the variables after step(false) returned r
Stepped(r) ==
    /\ Commit(r.cpu)
    /\ last' = Did("step", r.opcode, 0, r.cycles)
    /\ call' = IF r.opcode = \h20 /\ Running(r.cpu)
               THEN [active |-> TRUE, P |-> pc, S |-> sp, T |-> r.cpu.pc]
               ELSE call

\* cpu.step(false), on an opcode whose semantic function is modelled
Step ==
    /\ CanRun
    /\ FetchModelled(read(memory, pc))
    /\ Stepped(step(Cur))
    /\ nops' = nops + 1
    /\ UNCHANGED <<overflow_checks, pushed, base_sp>>

\* the memory mem with byte stored behind the address addr, in whichever
\* region read routes it to: how the images handed to the loaders are written
Poke(mem, addr, byte) ==
    LET r == ReadRoute(addr)
    IN [mem EXCEPT ![r.region] = VecSet(@, r.index, byte)]

\* the memory mem with the bytes of s stored from the address addr on
RECURSIVE PokeSeq(_, _, _)
PokeSeq(mem, addr, s) ==
    IF Len(s) = 0 THEN mem
    ELSE PokeSeq(Poke(mem, addr, Head(s)), (addr + 1) % 65536, Tail(s))

\* the memory of a CPU after load_ram, load_sram and load_rom of zeroed images
LoadedMemory ==
    LET m1 == load_ram(Memory_default, VecNew).mem
        m2 == load_sram(m1, VecNew).mem
    IN load_rom(m2, VecZeros(ROM_SIZE)).mem

\* the RAM of the memory mem holds its 2 KiB
RamLoaded(mem) == mem.ram.len = RAM_SIZE

\* RAM, SRAM and PRG-ROM of the memory mem are loaded
AllLoaded(mem) ==
    /\ mem.ram.len = RAM_SIZE
    /\ mem.sram.len = SRAM_SIZE
    /\ mem.rom.len = ROM_SIZE

\* the byte read at addr in a memory whose regions are loaded
Peek(mem, addr) == read(mem, addr).val

----------------------------------------------------------------------------
(* SpecStack: push_stack and pop_stack driven from a constructed CPU, as   *)
(* the unit tests of cpu/mod.rs drive them                                 *)

\* stack pointers the runs start from (0xFD is the one CPU::default sets)
StartSP == {\h00, \h01, \hFD, \hFF}

\* bytes the runs push
PushBytes == {\h00, \hAD, \hDE}

InitStack == \E s \in StartSP : Fresh([CPU_default EXCEPT !.sp = s])

LoadEmptyRam == LoadRam(VecNew)

Push == \E b \in PushBytes : PushStack(b)

NextStack == LoadEmptyRam \/ Push \/ PopStack

SpecStack == InitStack /\ [][NextStack]_vars

\* C1: a pop that follows pushes still outstanding returns the byte pushed
\* last (so k pushes then k pops return bk, ..., b1), and the pop that takes
\* the first of them leaves SP at its value before the first push.
C1_StackLifo ==
    (last.op = "pop_stack" /\ Len(last.pushed) > 0) =>
        /\ fatal = "none"
        /\ last.ret = last.pushed[Len(last.pushed)]
        /\ (Len(last.pushed) = 1 => sp = base_sp)

\* three pushes from SP = 0x01 (which wrap through 0x00 to 0xFF) have been
\* popped again
C1_Witness ==
    /\ last.op = "pop_stack"
    /\ Len(last.pushed) = 1
    /\ base_sp = \h01
    /\ last.pre.sp = \h00
    /\ last.ret # 0
    /\ nops >= 6

\* the cells in which the RAM vectors of m1 and m2 differ
RamDiff(m1, m2) ==
    {i \in (DOMAIN m1.ram.nz) \cup (DOMAIN m2.ram.nz) :
        VecGet(m1.ram, i) # VecGet(m2.ram, i)}

\* the memories m1 and m2 are equal outside RAM
SameOutsideRam(m1, m2) ==
    /\ m1.io = m2.io
    /\ m1.expansion_rom = m2.expansion_rom
    /\ m1.sram = m2.sram
    /\ m1.rom = m2.rom
    /\ m1.ram.len = m2.ram.len

\* C2: with RAM loaded, a push stores its byte at 0x0100 + SP, inside page 1,
\* changes no other cell and leaves SP one lower modulo 256; a pop leaves SP
\* one higher modulo 256, returns the byte at 0x0100 + the new SP and changes
\* no memory; neither ever fails.
C2_StackPage ==
    /\ (last.op = "push_stack" /\ RamLoaded(last.pre.memory)) =>
          /\ fatal = "none"
          /\ sp = (last.pre.sp - 1) % 256
          /\ \h0100 + last.pre.sp \in \h0100 .. \h01FF
          /\ read(memory, \h0100 + last.pre.sp) = [ok |-> TRUE, val |-> last.arg]
          /\ RamDiff(memory, last.pre.memory) \subseteq {\h0100 + last.pre.sp}
          /\ SameOutsideRam(memory, last.pre.memory)
    /\ (last.op = "pop_stack" /\ RamLoaded(last.pre.memory)) =>
          /\ fatal = "none"
          /\ sp = (last.pre.sp + 1) % 256
          /\ \h0100 + sp \in \h0100 .. \h01FF
          /\ read(last.pre.memory, \h0100 + sp) = [ok |-> TRUE, val |-> last.ret]
          /\ memory = last.pre.memory

\* a push at SP = 0x00 wrapped to 0xFF and the pop at SP = 0xFF wrapped back
C2_Witness ==
    /\ last.op = "pop_stack"
    /\ last.pre.sp = \hFF
    /\ sp = \h00
    /\ last.pushed = <<\hAD>>
    /\ last.ret = \hAD

----------------------------------------------------------------------------
(* SpecJsr: a JSR at the address P to a subroutine at T, run by step from  *)
(* a CPU whose memory regions are loaded                                   *)

\* addresses of the JSR: zero page, across the page 0/1 boundary, across the
\* end of the 2 KiB of RAM, in mirrored RAM, and the last place in PRG-ROM
\* from which the return address P + 3 is still a 16-bit address
JsrSites == {\h0000, \h00FE, \h07FE, \h1234, \hFFFC}

\* addresses of the subroutine: in RAM and in mirrored RAM
JsrTargets == {\h0300, \h0A10}

\* subroutine bodies: RTS; PHA PLA RTS; PLA RTS; PLA SEC PHP RTS
JsrBodies ==
    {<<\h60>>, <<\h48, \h68, \h60>>, <<\h68, \h60>>, <<\h68, \h38, \h08, \h60>>}

\* the loaded memory with the JSR at P and the body at T
JsrMemory(P, T, body) ==
    PokeSeq(PokeSeq(LoadedMemory, P, <<\h20, LowByte(T), HighByte(T)>>), T, body)

InitJsr ==
    \E P \in JsrSites, T \in JsrTargets, body \in JsrBodies, S \in StartSP :
        Fresh([CPU_default EXCEPT !.memory = JsrMemory(P, T, body),
                                  !.pc = P, !.sp = S, !.a = \h5A])

NextJsr == Step

SpecJsr == InitJsr /\ [][NextJsr]_vars

\* the two bytes JSR pushed for the call cl are in the memory mem
FrameIntact(mem, cl) ==
    /\ Peek(mem, \h0100 + cl.S) = HighByte(cl.P + 2)
    /\ Peek(mem, \h0100 + ((cl.S - 1) % 256)) = LowByte(cl.P + 2)

\* C3: a JSR at P (P + 3 a 16-bit address) with target T, run with stack
\* pointer S in loaded memory, leaves the high byte of P + 2 at 0x0100 + S and
\* the low byte one below (modulo 256), PC = T and SP = S - 2 (modulo 256);
\* an RTS run with SP = S - 2 and those two bytes intact leaves PC = P + 3
\* and SP = S.
C3_JsrRts ==
    /\ (last.op = "step" /\ last.arg = \h20 /\ AllLoaded(last.pre.memory)
          /\ last.pre.pc <= \hFFFC) =>
          LET P == last.pre.pc
              S == last.pre.sp
              T == MakeWord(Peek(last.pre.memory, P + 2),
                            Peek(last.pre.memory, P + 1))
          IN /\ fatal = "none"
             /\ pc = T
             /\ sp = (S - 2) % 256
             /\ Peek(memory, \h0100 + S) = HighByte(P + 2)
             /\ Peek(memory, \h0100 + ((S - 1) % 256)) = LowByte(P + 2)
             /\ last.ret = 6
    /\ (last.op = "step" /\ last.arg = \h60 /\ call.active
          /\ last.pre.fatal = "none"
          /\ last.pre.sp = (call.S - 2) % 256
          /\ FrameIntact(last.pre.memory, call)) =>
          /\ fatal = "none"
          /\ pc = call.P + 3
          /\ sp = call.S
          /\ last.ret = 6

\* the subroutine PHA PLA RTS, called from 0xFFFC with SP = 0x01, returned
\* to 0xFFFF with SP = 0x01 after its frame wrapped through 0x0100
C3_Witness ==
    /\ last.op = "step"
    /\ last.arg = \h60
    /\ call.active
    /\ call.P = \hFFFC
    /\ call.S = \h01
    /\ pc = \hFFFF
    /\ sp = \h01
    /\ nops = 4

----------------------------------------------------------------------------
(* SpecMem: Memory::write (through raw_write_byte) and Memory::read on a   *)
(* memory whose RAM and SRAM the harness loads                             *)

\* addresses written: the four mirrors of a RAM cell, the ends of RAM, PPU
\* registers and their mirrors, the APU/IO window, the expansion area, SRAM
\* and PRG-ROM
WriteAddrs ==
    {\h0001, \h0801, \h1001, \h1801, \h07FF, \h1FFF,
     \h2000, \h2008, \h2007, \h3FFF,
     \h4000, \h4007, \h401F, \h4020, \h6000, \h8000}

WriteBytes == {\h42, \hA7}

\* images handed to load_ram: none, and the one of the documentation of read
RamImages == {VecNew, VecOf(<<\hDE, \hAD, \hBE, \hEF>>)}

InitMem == Fresh(CPU_default)

LoadRamImage == \E img \in RamImages : LoadRam(img)

WriteAny == \E addr \in WriteAddrs, b \in WriteBytes : RawWrite(addr, b)

NextMem == LoadRamImage \/ LoadSram \/ WriteAny

SpecMem == InitMem /\ [][NextMem]_vars

\* the offsets of the four mirrors of RAM
RamMirrors == {\h0000, \h0800, \h1000, \h1800}

\* the RAM addresses at which the memory mem is probed: every mirror of every
\* non-zero cell and of the first and the last cell
RamProbes(mem) ==
    {i + k : i \in (DOMAIN mem.ram.nz) \cup {0, \h07FF}, k \in RamMirrors}

\* C4: with RAM loaded, reading any RAM address gives what reading it
\* modulo 0x0800 gives, and a byte written through one mirror of a cell is
\* read back through all four.
C4_RamMirror ==
    /\ \A addr \in RamProbes(memory) :
          /\ RamLoaded(memory) => read(memory, addr).ok
          /\ read(memory, addr) = read(memory, addr % \h0800)
    /\ (last.op = "write" /\ last.arg <= \h1FFF /\ RamLoaded(last.pre.memory)) =>
          /\ fatal = "none"
          /\ \A k \in RamMirrors :
                read(memory, (last.arg % \h0800) + k) =
                    [ok |-> TRUE, val |-> last.val]

\* the cell 0x0001 was written through 0x0801 and then, with another byte,
\* through 0x1801
C4_Witness ==
    /\ last.op = "write"
    /\ last.arg = \h1801
    /\ Peek(last.pre.memory, \h0001) = \h42
    /\ Peek(memory, \h0001) = \hA7
    /\ Peek(memory, \h0801) = \hA7

\* the PPU addresses probed: the eight registers in the first three copies,
\* in a middle copy and in the last copy of the window
PpuProbes == {\h2000 + r + 8 * j : r \in 0 .. 7, j \in {0, 1, 2, 511, 1023}}

\* C5: reading any address of the PPU window gives what reading
\* 0x2000 + (addr mod 8) gives, and a write into 0x4000-0x401F leaves every
\* read of the PPU window as it was.
C5_PpuMirror ==
    /\ \A addr \in PpuProbes :
          /\ read(memory, addr).ok
          /\ read(memory, addr) = read(memory, \h2000 + (addr % 8))
    /\ (last.op = "write" /\ last.arg \in \h4000 .. \h401F) =>
          /\ fatal = "none"
          /\ Peek(memory, last.arg) = last.val
          /\ \A addr \in PpuProbes :
                read(memory, addr) = read(last.pre.memory, addr)

\* a PPU register was written through a mirror, then the first APU register
C5_Witness ==
    /\ last.op = "write"
    /\ last.arg = \h4000
    /\ last.val = \h42
    /\ Peek(memory, \h2000) = \hA7
    /\ Peek(memory, \h3FF8) = \hA7
    /\ Peek(memory, \h4000) = \h42

----------------------------------------------------------------------------
(* SpecRom: store instructions and raw writes aimed at PRG-ROM             *)

\* PRG-ROM image: STY $8001 at 0x8000, and a byte in the last cell
RomImage ==
    VecSet(VecPatch(VecZeros(ROM_SIZE), 0, <<\h8C, \h01, \h80>>), \h7FFF, \hC3)

\* RAM images, run from PC = 0: STA $8000; STA $7FFF,X; STX $FFFF;
\* STA ($03),Y with the pointer 0x8000; PHA then JSR $8000
RomPrograms ==
    {VecOf(<<\h8D, \h00, \h80>>),
     VecOf(<<\h9D, \hFF, \h7F>>),
     VecOf(<<\h8E, \hFF, \hFF>>),
     VecOf(<<\h91, \h03, \h00, \h00, \h80>>),
     VecOf(<<\h48, \h20, \h00, \h80>>)}

\* addresses and the byte of the raw writes
RomWriteAddrs == {\h7FFF, \h8000, \hFFFF}

InitRom == Fresh([CPU_default EXCEPT !.a = \h5A, !.x = \h01])

LoadProgram == \E prog \in RomPrograms : LoadRam(prog)

LoadRomImage == LoadRom(RomImage)

WriteRom == \E addr \in RomWriteAddrs : RawWrite(addr, \h42)

NextRom == LoadProgram \/ LoadSram \/ LoadRomImage \/ WriteRom \/ Step

SpecRom == InitRom /\ [][NextRom]_vars

\* the PRG-ROM addresses probed in the memories m1 and m2: every cell that
\* is non-zero in either, and the first and the last cell
RomProbes(m1, m2) ==
    {\h8000 + i : i \in (DOMAIN m1.rom.nz) \cup (DOMAIN m2.rom.nz) \cup {0, \h7FFF}}

\* C6: once PRG-ROM is loaded, no step and no write changes the byte read at
\* any address of 0x8000-0xFFFF.
C6_RomImmutable ==
    [][memory.rom.len = ROM_SIZE =>
          /\ memory'.rom.len = ROM_SIZE
          /\ \A addr \in RomProbes(memory, memory') :
                read(memory', addr) = read(memory, addr)]_vars

\* STY $8001, fetched from PRG-ROM after PHA and JSR $8000, was refused
C6_Witness ==
    /\ memory.rom.len = ROM_SIZE
    /\ last.op = "step"
    /\ last.arg = \h8C
    /\ last.pre.pc = \h8000
    /\ fatal = "Unable to write"
    /\ Peek(memory, \h8001) = \h01

----------------------------------------------------------------------------
(* SpecFlags: Flags::set_from_byte applied to the flag register            *)

InitFlags == Fresh(CPU_default)

\* number of calls of set_from_byte in one run
MaxSets == 2

\* cpu.flags.set_from_byte(byte)
SetFromByte ==
    \E byte \in Byte :
        /\ nops < MaxSets
        /\ flags' = set_from_byte(flags, byte)
        /\ last' = Did("set_from_byte", byte, byte, 0)
        /\ nops' = nops + 1
        /\ UNCHANGED <<memory, pc, sp, a, x, y, fatal, overflow_checks,
                       pushed, base_sp, call>>

NextFlags == SetFromByte

SpecFlags == InitFlags /\ [][NextFlags]_vars

\* C7: unpacking the byte b with set_from_byte and packing the flags with
\* as_byte gives (b | 0x20) with bit 4 cleared.
C7_FlagRoundTrip ==
    last.op = "set_from_byte" =>
        as_byte(flags) = BitAnd(BitOr(last.arg, \h20), \hEF)

----------------------------------------------------------------------------
(* SpecAlu: one ADC or SBC instruction run by step from PC = 0             *)

\* operand bytes: both ends of each sign, the values of the tests of
\* get_overflow, and 0xFF, which wraps when the carry is added to it
OperandBytes ==
    {\h00, \h01, \h0F, \h10, \h3F, \h40, \h50, \h7F,
     \h80, \h81, \h90, \hB0, \hD0, \hFE, \hFF}

\* ADC #, ADC zp, SBC #, SBC # (0xEB), SBC zp
AluOpcodes == {\h69, \h65, \hE9, \hEB, \hE5}

\* zero-page cell that holds the operand of the zero-page forms
OperandCell == \h10

\* memory with the instruction opcode at 0 and its operand m
OperandMemory(opcode, m) ==
    IF Dispatch(opcode).mode = "Immediate"
    THEN PokeSeq(LoadedMemory, 0, <<opcode, m>>)
    ELSE Poke(PokeSeq(LoadedMemory, 0, <<opcode, OperandCell>>), OperandCell, m)

\* flags with the carry c and every other flag equal to rest
FlagsOf(c, rest) ==
    [carry |-> c, zero |-> rest, interrupt_disable |-> rest,
     break_command |-> rest, overflow |-> rest, negative |-> rest]

InitAlu ==
    \E opcode \in AluOpcodes, A \in Byte, m \in OperandBytes,
       c \in BOOLEAN, rest \in BOOLEAN :
        Fresh([CPU_default EXCEPT !.memory = OperandMemory(opcode, m),
                                  !.a = A,
                                  !.flags = FlagsOf(c, rest)])

NextAlu == Step

SpecAlu == InitAlu /\ [][NextAlu]_vars

\* the operand byte the instruction opcode reads on the CPU c
OperandOf(c, opcode) ==
    LET next == Peek(c.memory, c.pc + 1)
    IN IF Dispatch(opcode).mode = "Immediate" THEN next ELSE Peek(c.memory, next)

\* the last step ran ADC or SBC
RanAlu == last.op = "step" /\ Dispatch(last.arg).sem \in {"adc", "sbc"}

\* the byte added by the last ADC (M) or SBC (the complement of M)
Addend ==
    IF Dispatch(last.arg).sem = "adc" THEN OperandOf(last.pre, last.arg)
    ELSE 255 - OperandOf(last.pre, last.arg)

CarryIn == IF last.pre.flags.carry THEN 1 ELSE 0

\* C8: ADC leaves A' = (A + M + C) mod 256, carry iff A + M + C >= 256,
\* Z iff A' = 0 and N = bit 7 of A'; SBC does the same with the complement
\* of M in place of M.
C8_AddWithCarry ==
    RanAlu =>
        LET sum == last.pre.a + Addend + CarryIn
        IN /\ fatal = "none"
           /\ a = sum % 256
           /\ flags.carry = (sum >= 256)
           /\ flags.zero = (a = 0)
           /\ flags.negative = (Bit(a, 7) = 1)

\* SBC #$B0 from A = 0x50 with the carry set: 0xA0, borrow, negative
C8_Witness ==
    /\ RanAlu
    /\ last.arg = \hE9
    /\ last.pre.a = \h50
    /\ OperandOf(last.pre, last.arg) = \hB0
    /\ last.pre.flags.carry
    /\ a = \hA0
    /\ ~flags.carry
    /\ flags.negative

\* C9: after ADC, V is set iff A and M have the same bit 7 and bit 7 of the
\* result differs from it; after SBC the same with the complement of M; also
\* when the addend is 0xFF and the carry-in is 1.
C9_SignedOverflow ==
    RanAlu =>
        flags.overflow = (/\ Bit(last.pre.a, 7) = Bit(Addend, 7)
                          /\ Bit(a, 7) # Bit(last.pre.a, 7))

\* ADC #$FF to A = 0x80 with the carry set: the addend plus the carry wraps
C9_Witness ==
    /\ RanAlu
    /\ last.arg = \h69
    /\ last.pre.a = \h80
    /\ Addend = \hFF
    /\ CarryIn = 1
    /\ a = \h80
    /\ flags.carry
    /\ ~flags.overflow

----------------------------------------------------------------------------
(* SpecCmp: one CMP, CPX or CPY instruction run by step from PC = 0        *)

\* CMP #, CMP zp, CPX #, CPX zp, CPY #, CPY zp
CmpOpcodes == {\hC9, \hC5, \hE0, \hE4, \hC0, \hC4}

\* values of the two registers the instruction does not compare
OtherLow == \h3C

OtherHigh == \hC3

\* the CPU c with r in the register the instruction sem compares and the
\* two other values in the remaining registers
WithRegisters(c, sem, r) ==
    CASE sem = "cmp" -> [c EXCEPT !.a = r, !.x = OtherLow, !.y = OtherHigh]
      [] sem = "cpx" -> [c EXCEPT !.a = OtherHigh, !.x = r, !.y = OtherLow]
      [] sem = "cpy" -> [c EXCEPT !.a = OtherLow, !.x = OtherHigh, !.y = r]

InitCmp ==
    \E opcode \in CmpOpcodes, r \in Byte, m \in OperandBytes, rest \in BOOLEAN :
        Fresh(WithRegisters([CPU_default EXCEPT
                                 !.memory = OperandMemory(opcode, m),
                                 !.flags = FlagsOf(rest, rest)],
                            Dispatch(opcode).sem, r))

NextCmp == Step

SpecCmp == InitCmp /\ [][NextCmp]_vars

\* the last step ran CMP, CPX or CPY
RanCmp == last.op = "step" /\ Dispatch(last.arg).sem \in {"cmp", "cpx", "cpy"}

\* the register the last compare instruction compared, as it was before
Compared ==
    CASE Dispatch(last.arg).sem = "cmp" -> last.pre.a
      [] Dispatch(last.arg).sem = "cpx" -> last.pre.x
      [] Dispatch(last.arg).sem = "cpy" -> last.pre.y

\* C10: a compare of the register value r with the operand m sets
\* C = (r >= m), Z = (r = m), N = bit 7 of (r - m) mod 256, and leaves A, X,
\* Y, SP, V and memory unchanged.
C10_Compare ==
    RanCmp =>
        LET r == Compared
            m == OperandOf(last.pre, last.arg)
        IN /\ fatal = "none"
           /\ flags.carry = (r >= m)
           /\ flags.zero = (r = m)
           /\ flags.negative = (Bit((r - m) % 256, 7) = 1)
           /\ a = last.pre.a
           /\ x = last.pre.x
           /\ y = last.pre.y
           /\ sp = last.pre.sp
           /\ flags.overflow = last.pre.flags.overflow
           /\ memory = last.pre.memory

\* CPX $10 with X = 0x80 equal to the operand, every flag clear before
C10_Witness ==
    /\ RanCmp
    /\ last.arg = \hE4
    /\ last.pre.x = \h80
    /\ OperandOf(last.pre, last.arg) = \h80
    /\ ~last.pre.flags.carry
    /\ flags.carry
    /\ flags.zero
    /\ ~flags.negative
    /\ ~flags.overflow

----------------------------------------------------------------------------
(* SpecJmp: one JMP instruction run by step                                *)

\* addresses of the JMP instruction: in RAM and at the start of PRG-ROM
JmpSites == {\h0200, \h8000}

\* JMP absolute, JMP (indirect)
JmpOpcodes == {\h4C, \h6C}

\* operand words: pointers at the end of a page in RAM, in a RAM mirror, in
\* the PPU window, in SRAM and in PRG-ROM (0xFFFF included), at the start of
\* a page, and inside a page
JmpPointers ==
    {\h00FF, \h03FF, \h07FF, \h10FF, \h3FFF, \h60FF, \h80FF, \hFFFF,
     \h0300, \h0310, \h1234, \h6000, \hC0FE}

\* low bytes stored behind the pointer
JmpLowBytes == {\h00, \h34}

\* memory with the instruction at P, the byte lo behind ptr, 0x78 behind
\* ptr + 1 and 0x56 at the start of the page of ptr
JmpMemory(P, opcode, ptr, lo) ==
    PokeSeq(Poke(Poke(Poke(LoadedMemory, ptr - (ptr % 256), \h56),
                      (ptr + 1) % 65536, \h78),
                 ptr, lo),
            P, <<opcode, LowByte(ptr), HighByte(ptr)>>)

InitJmp ==
    \E P \in JmpSites, opcode \in JmpOpcodes, ptr \in JmpPointers,
       lo \in JmpLowBytes :
        Fresh([CPU_default EXCEPT !.memory = JmpMemory(P, opcode, ptr, lo),
                                  !.pc = P])

NextJmp == Step

SpecJmp == InitJmp /\ [][NextJmp]_vars

\* the operand word of the instruction the last step ran
OperandWord ==
    MakeWord(Peek(last.pre.memory, last.pre.pc + 2),
             Peek(last.pre.memory, last.pre.pc + 1))

\* C11: JMP (ptr) sets PC to mem[ptr] | (mem[ptr & 0xFF00] << 8) when the
\* low byte of ptr is 0xFF, and to mem[ptr] | (mem[ptr + 1] << 8) for every
\* other ptr.
C11_JmpIndirect ==
    (last.op = "step" /\ last.arg = \h6C /\ AllLoaded(last.pre.memory)) =>
        LET ptr == OperandWord
            m   == last.pre.memory
        IN /\ fatal = "none"
           /\ last.ret = 5
           /\ pc = IF ptr % 256 = \hFF
                   THEN MakeWord(Peek(m, ptr - \hFF), Peek(m, ptr))
                   ELSE MakeWord(Peek(m, ptr + 1), Peek(m, ptr))

\* JMP ($03FF) took the high byte from 0x0300, not from 0x0400
C11_Witness ==
    /\ last.op = "step"
    /\ last.arg = \h6C
    /\ OperandWord = \h03FF
    /\ Peek(last.pre.memory, \h0400) = \h78
    /\ pc = \h5634

----------------------------------------------------------------------------
(* SpecOffset: offset_pc called on a constructed CPU, as its unit tests    *)
(* call it, from program counters at both ends of the address space        *)

\* program counters at the ends of the address space, at page ends and
\* the 1000 of the unit tests
OffsetSites ==
    {\h0000, \h0001, \h007F, \h0080, \h00FF, \h0100, 1000, \h7FFF, \h8000,
     \hFF7F, \hFF80, \hFFFE, \hFFFF}

\* number of offset_pc calls in one run
MaxOffsets == 1

InitOffset == \E P \in OffsetSites : Fresh([CPU_default EXCEPT !.pc = P])

\* cpu.offset_pc(o)
OffsetPc ==
    \E o \in Byte :
        /\ fatal = "none"
        /\ nops < MaxOffsets
        /\ Commit(offset_pc(Cur, o))
        /\ last' = Did("offset_pc", o, 0, 0)
        /\ nops' = nops + 1
        /\ UNCHANGED <<overflow_checks, pushed, base_sp, call>>

NextOffset == OffsetPc

SpecOffset == InitOffset /\ [][NextOffset]_vars

\* the offset byte o read as a signed 8-bit value
SignExtend(o) == IF o < 128 THEN o ELSE o - 256

\* C12: offset_pc(o) never fails and leaves PC = (PC + sign_extend(o)) mod
\* 65536, for every PC and every offset byte, also when the sum passes
\* 0xFFFF or goes below 0.
C12_OffsetPc ==
    last.op = "offset_pc" =>
        /\ fatal = "none"
        /\ pc = (last.pre.pc + SignExtend(last.arg)) % 65536

----------------------------------------------------------------------------
(* SpecBranch: step on each of the eight branch instructions, with the     *)
(* tested flag in both states and targets in and out of the page           *)

\* where the branch instruction sits: mid page and at the ends of a page
BranchSites == {\h0210, \h02F0, \h80FD, \h8100}

\* BPL, BMI, BVC, BVS, BCC, BCS, BNE, BEQ
BranchOpcodes == {\h10, \h30, \h50, \h70, \h90, \hB0, \hD0, \hF0}

\* forward and backward offsets, short and long
BranchOffsets == {\h00, \h05, \h7F, \h80, \hFB, \hFF}

BranchMemory(P, opcode, o) == PokeSeq(LoadedMemory, P, <<opcode, o>>)

BranchFlags(cf, zf, vf, nf) ==
    [Flags_default EXCEPT !.carry = cf, !.zero = zf,
                          !.overflow = vf, !.negative = nf]

InitBranch ==
    \E P \in BranchSites, opcode \in BranchOpcodes, o \in BranchOffsets,
       cf, zf, vf, nf \in BOOLEAN :
        Fresh([CPU_default EXCEPT !.memory = BranchMemory(P, opcode, o),
                                  !.flags = BranchFlags(cf, zf, vf, nf),
                                  !.pc = P])

NextBranch == Step

SpecBranch == InitBranch /\ [][NextBranch]_vars

\* the condition of the branch opcode on the flags f
BranchTaken(opcode, f) ==
    CASE opcode = \h10 -> ~f.negative
      [] opcode = \h30 -> f.negative
      [] opcode = \h50 -> ~f.overflow
      [] opcode = \h70 -> f.overflow
      [] opcode = \h90 -> ~f.carry
      [] opcode = \hB0 -> f.carry
      [] opcode = \hD0 -> ~f.zero
      [] opcode = \hF0 -> f.zero

\* the last step ran a branch instruction to its end
RanBranch ==
    last.op = "step" /\ last.arg \in BranchOpcodes /\ fatal = "none"

\* C13: each of the eight branch instructions reports 2 cycles when the
\* branch is not taken, 3 when it is taken to a target in the page of the
\* PC after the operand, and 4 when it is taken to a target in another page.
C13_BranchCycles ==
    RanBranch =>
        last.ret = IF ~BranchTaken(last.arg, last.pre.flags) THEN 2
                   ELSE IF HighByte(pc) = HighByte(last.pre.pc + 2) THEN 3
                   ELSE 4

----------------------------------------------------------------------------
(* SpecAddr: read_byte, write_byte and update_byte called on a constructed *)
(* CPU in the zero-page indexed and the indirect addressing modes          *)

\* where the operand byte sits
AddrSite == \h0200

\* operand bytes and index values at both ends of the byte range
AddrOperands == {\h00, \h01, \h80, \hFE, \hFF}
AddrIndexes == {\h00, \h01, \h02, \h80, \hFF}

AddrModes == {"ZeroPageX", "ZeroPageY", "IndirectX", "IndirectY"}

Accessors == {"read_byte", "write_byte", "update_byte"}

\* the byte of the zero-page cell i: every cell differs from its neighbours
\* and from the zeroed page one, the cells 0xFE and 0xFF hold the pointer
\* 0xFFF0, and every other pair of cells is a pointer into RAM
ZeroPageCell(i) ==
    IF i = \hFE THEN \hF0 ELSE IF i = \hFF THEN \hFF ELSE 1 + (i % 7)

\* the loaded memory with that zero page and the operand byte zp
AddrMemory(zp) ==
    Poke([LoadedMemory EXCEPT
             !.ram = VecPatch(@, 0, [i \in 1 .. 256 |-> ZeroPageCell(i - 1)])],
         AddrSite, zp)

\* number of accessor calls in one run
MaxAccess == 1

InitAddr ==
    \E zp \in AddrOperands, X \in AddrIndexes, Y \in AddrIndexes :
        Fresh([CPU_default EXCEPT !.memory = AddrMemory(zp), !.pc = AddrSite,
                                  !.x = X, !.y = Y])

\* the address an accessor computed, -1 when it panicked before it had one
EffectiveOf(t) == IF Running(t.cpu) THEN t.val ELSE -1

\* cpu.read_byte(&addressing, true)
ReadByte ==
    \E addressing \in AddrModes :
        /\ fatal = "none"
        /\ nops < MaxAccess
        /\ Commit(read_byte(Cur, addressing, TRUE).cpu)
        /\ last' = Did("read_byte", addressing,
                       EffectiveOf(ReadAddress(Cur, addressing, TRUE)),
                       read_byte(Cur, addressing, TRUE).val)
        /\ nops' = nops + 1
        /\ UNCHANGED <<overflow_checks, pushed, base_sp, call>>

\* cpu.write_byte(&addressing, 0xAB, true)
WriteByte ==
    \E addressing \in AddrModes :
        /\ fatal = "none"
        /\ nops < MaxAccess
        /\ Commit(write_byte(Cur, addressing, \hAB, TRUE))
        /\ last' = Did("write_byte", addressing,
                       EffectiveOf(WriteAddress(Cur, addressing, TRUE)), \hAB)
        /\ nops' = nops + 1
        /\ UNCHANGED <<overflow_checks, pushed, base_sp, call>>

\* cpu.update_byte(&addressing, |x| (x.wrapping_add(1), None), true)
UpdateByte ==
    \E addressing \in AddrModes :
        /\ fatal = "none"
        /\ nops < MaxAccess
        /\ Commit(update_byte(Cur, addressing, "inc", TRUE).cpu)
        /\ last' = Did("update_byte", addressing,
                       EffectiveOf(UpdateAddress(Cur, addressing, TRUE)),
                       update_byte(Cur, addressing, "inc", TRUE).val)
        /\ nops' = nops + 1
        /\ UNCHANGED <<overflow_checks, pushed, base_sp, call>>

NextAddr == ReadByte \/ WriteByte \/ UpdateByte

SpecAddr == InitAddr /\ [][NextAddr]_vars

\* the operand byte of the last accessor call and the index its mode adds
OperandByte == Peek(last.pre.memory, last.pre.pc)
IndexOf(addressing) ==
    IF addressing \in {"ZeroPageX", "IndirectX"} THEN last.pre.x ELSE last.pre.y

\* the last accessor call worked on the byte at the address addr
AccessedAt(addr) ==
    /\ fatal = "none"
    /\ last.val = addr
    /\ last.op = "read_byte" => last.ret = Peek(last.pre.memory, addr)
    /\ last.op = "write_byte" => Peek(memory, addr) = \hAB
    /\ last.op = "update_byte" =>
           /\ last.ret = (Peek(last.pre.memory, addr) + 1) % 256
           /\ Peek(memory, addr) = last.ret

\* the last accessor call is one of ops in one of the modes
Accessed(ops, modes) == last.op \in ops /\ last.arg \in modes

\* C14, as stated: the effective address of ZeroPageX is (z + X) mod 256
\* and of ZeroPageY is (z + Y) mod 256, identically in read_byte,
\* write_byte and update_byte.
C14_ZeroPageWrapAll ==
    Accessed(Accessors, {"ZeroPageX", "ZeroPageY"}) =>
        AccessedAt((OperandByte + IndexOf(last.arg)) % 256)

\* C14: the effective address of ZeroPageX is (z + X) mod 256 in read_byte,
\* write_byte and update_byte, and of ZeroPageY is (z + Y) mod 256 in
\* read_byte and write_byte; update_byte has no ZeroPageY arm and fails
\* without touching memory.
C14_ZeroPageWrap ==
    /\ Accessed(Accessors, {"ZeroPageX"}) =>
           AccessedAt((OperandByte + last.pre.x) % 256)
    /\ Accessed({"read_byte", "write_byte"}, {"ZeroPageY"}) =>
           AccessedAt((OperandByte + last.pre.y) % 256)
    /\ Accessed({"update_byte"}, {"ZeroPageY"}) =>
           /\ fatal # "none"
           /\ memory = last.pre.memory

\* update_byte in ZeroPageX with z = 0xFF and X = 0xFF incremented cell 0xFE
C14_Witness ==
    /\ Accessed({"update_byte"}, {"ZeroPageX"})
    /\ OperandByte = \hFF
    /\ last.pre.x = \hFF
    /\ last.val = \hFE
    /\ Peek(memory, \hFE) = \hF1
    /\ Peek(memory, \h01FE) = 0

\* the 16-bit pointer held in the zero-page cells z and (z + 1) mod 256
PointerAt(mem, z) == MakeWord(Peek(mem, (z + 1) % 256), Peek(mem, z))

\* C15: for IndirectX the effective address is the pointer read at
\* z = (zp + X) mod 256, low byte from mem[z] and high byte from
\* mem[(z + 1) mod 256]; for IndirectY it is the pointer read at zp, plus Y,
\* mod 65536; for every zp, X and Y and in read_byte, write_byte and
\* update_byte alike.
C15_IndirectPointer ==
    Accessed(Accessors, {"IndirectX", "IndirectY"}) =>
        last.val = IF last.arg = "IndirectX"
                   THEN PointerAt(last.pre.memory,
                                  (OperandByte + last.pre.x) % 256)
                   ELSE (PointerAt(last.pre.memory, OperandByte)
                         + last.pre.y) % 65536

----------------------------------------------------------------------------
(* SpecPage: step on AND, ADC, SBC and CMP in the indexed modes, with the  *)
(* index keeping the address in the page of the base and moving it out     *)

PageSite == \h0200

\* the zero-page cell that holds the pointer of the IndirectY operand
PageCell == \h10

\* AND, ADC, SBC and CMP in AbsoluteX, AbsoluteY and IndirectY
PageOpcodes ==
    {\h3D, \h39, \h31, \h7D, \h79, \h71, \hFD, \hF9, \hF1, \hDD, \hD9, \hD1}

\* un-indexed base addresses mid page and at the end of a page
PageBases == {\h0300, \h03F0, \h03FF}

PageIndexes == {\h00, \h01, \h10, \hFF}

\* the instruction at PageSite with the base as its operand, or with the
\* cell that points to the base as its operand
PageMemory(opcode, base) ==
    IF Dispatch(opcode).mode = "IndirectY"
    THEN PokeSeq(PokeSeq(LoadedMemory, PageCell,
                         <<LowByte(base), HighByte(base)>>),
                 PageSite, <<opcode, PageCell>>)
    ELSE PokeSeq(LoadedMemory, PageSite,
                 <<opcode, LowByte(base), HighByte(base)>>)

InitPage ==
    \E opcode \in PageOpcodes, base \in PageBases,
       X \in PageIndexes, Y \in PageIndexes :
        Fresh([CPU_default EXCEPT !.memory = PageMemory(opcode, base),
                                  !.pc = PageSite, !.a = \hFF,
                                  !.x = X, !.y = Y])

NextPage == Step

SpecPage == InitPage /\ [][NextPage]_vars

\* the last step ran one of the indexed read instructions to its end
RanIndexedRead ==
    last.op = "step" /\ last.arg \in PageOpcodes /\ fatal = "none"

\* the un-indexed base address of the instruction the last step ran
BaseAddress ==
    IF Dispatch(last.arg).mode = "IndirectY"
    THEN PointerAt(last.pre.memory,
                   Peek(last.pre.memory, last.pre.pc + 1))
    ELSE OperandWord

\* the indexed effective address of the instruction the last step ran
IndexedAddress ==
    (BaseAddress + IF Dispatch(last.arg).mode = "AbsoluteX"
                   THEN last.pre.x ELSE last.pre.y) % 65536

\* C16: step reports one extra cycle for a read-class instruction in
\* AbsoluteX, AbsoluteY or IndirectY mode exactly when the indexed effective
\* address lies in another 256-byte page than the un-indexed base address,
\* and the base cycle count (4, 4 and 5) otherwise.
C16_PageCrossCycle ==
    RanIndexedRead =>
        last.ret = (IF Dispatch(last.arg).mode = "IndirectY" THEN 5 ELSE 4)
                   + (IF HighByte(IndexedAddress) # HighByte(BaseAddress)
                      THEN 1 ELSE 0)

----------------------------------------------------------------------------
(* SpecUnknown: step on every opcode byte the match of step has no arm     *)
(* for, followed by an instruction whose effect would show                 *)

UnknownSites == {\h0200, \h8000}

\* the opcode bytes without an arm
UnknownOpcodes == {b \in Byte : Dispatch(b).sem = "unknown"}

\* SEC and CLC, which have one
KnownOpcodes == {\h38, \h18}

\* the byte after the opcode: SEC, or a byte without an arm
FollowingBytes == {\h38, \h02}

InitUnknown ==
    \E P \in UnknownSites, opcode \in UnknownOpcodes \cup KnownOpcodes,
       following \in FollowingBytes :
        Fresh([CPU_default EXCEPT
                  !.memory = PokeSeq(LoadedMemory, P, <<opcode, following>>),
                  !.pc = P])

NextUnknown == Step

SpecUnknown == InitUnknown /\ [][NextUnknown]_vars

\* C17: for every opcode byte without an entry in the dispatch of step, step
\* ends in a fatal condition that identifies the byte; it returns no cycle
\* count, changes nothing but the PC of the fetch, and nothing runs after it
\* (no step is ever taken from a fatal state).
C17_UnknownOpcode ==
    [][/\ fatal = "none"
       /\ (last'.op = "step" /\ Peek(memory, pc) \in UnknownOpcodes) =>
              /\ fatal' = "Unknown opcode: 0x" \o HexByte(Peek(memory, pc))
              /\ last'.ret = 0
              /\ pc' = pc + 1
              /\ UNCHANGED <<memory, flags, sp, a, x, y>>]_vars

\* step on 0xFF ended in the fatal condition naming 0xFF, with the SEC that
\* follows it not run
C17_Witness ==
    /\ last.op = "step"
    /\ Peek(last.pre.memory, last.pre.pc) = \hFF
    /\ fatal = "Unknown opcode: 0xFF"
    /\ Peek(memory, pc) = \h38
    /\ ~flags.carry

----------------------------------------------------------------------------
(* SpecStatus: step on TXS, PHP and PLA from every setting of the flags,   *)
(* with X, SP and the byte on top of the stack at both ends of their range *)

StatusSite == \h0200

\* TXS, PHP, PLA
StatusOpcodes == {\h9A, \h08, \h68}

StatusBytes == {\h00, \h01, \h7F, \h80, \hFF}

\* stack pointers mid page and at the end where pop_stack wraps
StatusPointers == {\hFC, \hFF}

\* the flag register with every field drawn
AllFlags ==
    [carry : BOOLEAN, zero : BOOLEAN, interrupt_disable : BOOLEAN,
     break_command : BOOLEAN, overflow : BOOLEAN, negative : BOOLEAN]

\* the instruction at StatusSite and the byte the next pop_stack returns
StatusMemory(opcode, S, top) ==
    Poke(Poke(LoadedMemory, \h0100 + ((S + 1) % 256), top), StatusSite, opcode)

InitStatus ==
    \E opcode \in StatusOpcodes, f \in AllFlags, S \in StatusPointers,
       b \in StatusBytes :
        Fresh([CPU_default EXCEPT !.memory = StatusMemory(opcode, S, b),
                                  !.flags = f, !.pc = StatusSite, !.sp = S,
                                  !.x = b, !.a = \h55])

NextStatus == Step

SpecStatus == InitStatus /\ [][NextStatus]_vars

\* the last step ran the instruction of the opcode byte on the first
\* instruction of the run
Ran(opcode) ==
    last.op = "step" /\ last.arg = opcode /\ last.pre.pc = StatusSite

\* C18: TXS copies X into SP and leaves every flag exactly as it was, for
\* every value of X.
C18_TxsFlags ==
    Ran(\h9A) =>
        /\ fatal = "none"
        /\ sp = last.pre.x
        /\ flags = last.pre.flags

\* the bit of a flag in the status byte
FlagBit(set) == IF set THEN 1 ELSE 0

\* C19: PHP writes to 0x0100 + SP a status byte whose bits 5 and 4 are both
\* 1 and whose bits 0, 1, 2, 6, 7 equal the current C, Z, I, V, N (the flag
\* register of the program has no D for bit 3), then decrements SP; the
\* flag register itself is unchanged.
C19_PhpStatusByte ==
    Ran(\h08) =>
        LET byte == Peek(memory, \h0100 + last.pre.sp)
            f    == last.pre.flags
        IN /\ fatal = "none"
           /\ Bit(byte, 5) = 1
           /\ Bit(byte, 4) = 1
           /\ Bit(byte, 0) = FlagBit(f.carry)
           /\ Bit(byte, 1) = FlagBit(f.zero)
           /\ Bit(byte, 2) = FlagBit(f.interrupt_disable)
           /\ Bit(byte, 6) = FlagBit(f.overflow)
           /\ Bit(byte, 7) = FlagBit(f.negative)
           /\ sp = (last.pre.sp - 1) % 256
           /\ flags = f

\* C20: after PLA, A holds the byte popped from the stack, Z is set iff that
\* byte is 0 and N is set iff its bit 7 is 1.
C20_PlaFlags ==
    Ran(\h68) =>
        LET byte == Peek(last.pre.memory, \h0100 + ((last.pre.sp + 1) % 256))
        IN /\ fatal = "none"
           /\ a = byte
           /\ flags.zero = (byte = 0)
           /\ flags.negative = (Bit(byte, 7) = 1)

----------------------------------------------------------------------------
(* Stores into the register windows and the expansion area, under SpecMem  *)

\* C21: Memory::write accepts a store to every address in the PPU window,
\* the APU/IO window and the cartridge expansion area (0x2000-0x5FFF)
\* without a fatal condition, and a following read of that address returns
\* the stored byte.
C21_IoStore ==
    (last.op = "write" /\ last.arg \in \h2000 .. \h5FFF) =>
        /\ fatal = "none"
        /\ read(memory, last.arg) = [ok |-> TRUE, val |-> last.val]

----------------------------------------------------------------------------
(* SpecLoad: load_file and process_file on a constructed CPU, over iNES    *)
(* files with every kind of header                                         *)

\* where the PRG data of a file with control byte b6 starts
PrgStart(b6) == IF (b6 \div 4) % 2 = 1 THEN 16 + 512 ELSE 16

\* the bytes of an iNES file: the header, a trainer marked at both ends
\* when b6 asks for one, and size bytes of PRG data holding the marks and,
\* in its last six bytes, the vectors with the reset vector among them
NesFile(m0, banks, b6, b7, size, vector) ==
    [len |-> PrgStart(b6) + size,
     nz  |-> [j \in {k \in
                  {0, 1, 2, 3, 4, 6, 7}
                  \cup (IF PrgStart(b6) > 16 THEN {16, 527} ELSE {})
                  \cup {PrgStart(b6) + i : i \in {0, \h3FFF, \h4000, \h7FFF,
                                                  size - 4, size - 3}} :
                  k < PrgStart(b6) + size
                  /\ ~(k = 4 /\ banks = 0) /\ ~(k = 6 /\ b6 = 0)
                  /\ ~(k = 7 /\ b7 = 0)
                  /\ ~(k = PrgStart(b6) + size - 4 /\ LowByte(vector) = 0)} |->
                 CASE j = 0 -> m0
                   [] j = 1 -> \h45
                   [] j = 2 -> \h53
                   [] j = 3 -> \h1A
                   [] j = 4 -> banks
                   [] j = 6 -> b6
                   [] j = 7 -> b7
                   [] j = 16 /\ PrgStart(b6) > 16 -> \h77
                   [] j = 527 /\ PrgStart(b6) > 16 -> \h78
                   [] j = PrgStart(b6) + size - 4 -> LowByte(vector)
                   [] j = PrgStart(b6) + size - 3 -> HighByte(vector)
                   [] j = PrgStart(b6) -> \hA1
                   [] j = PrgStart(b6) + \h3FFF -> \hA2
                   [] j = PrgStart(b6) + \h4000 -> \hB1
                   [] j = PrgStart(b6) + \h7FFF -> \hB2]]

\* first bytes: 'N' and a wrong one
LoadMagics == {\h4E, \h4D}

\* PRG bank counts
LoadBanks == {0, 1, 2, 3}

\* control bytes 6: plain, with a trainer, with the mirroring bit, mapper 1
LoadControl1 == {\h00, \h04, \h01, \h10}

\* control bytes 7: plain, low nibble set, mapper 16
LoadControl2 == {\h00, \h08, \h10}

\* the PRG size a bank count calls for; one bank for the counts refused
PrgSize(banks) == IF banks = 2 THEN \h8000 ELSE \h4000

\* files of the size their header calls for, with the reset vector 0x8000,
\* the accepted ones also with another reset vector and cut short
LoadFiles ==
    {NesFile(m0, banks, b6, b7, PrgSize(banks), \h8000) :
        m0 \in LoadMagics, banks \in LoadBanks,
        b6 \in LoadControl1, b7 \in LoadControl2}
    \cup {NesFile(\h4E, banks, b6, 0, PrgSize(banks), \hC123) :
            banks \in {1, 2}, b6 \in {\h00, \h04}}
    \cup {NesFile(\h4E, banks, b6, 0, PrgSize(banks) - \h0100, \h8000) :
            banks \in {1, 2}, b6 \in {\h00, \h04}}

\* number of loader calls in one run
MaxLoads == 1

InitLoad ==
    \E a0 \in {\h00, \h5A} :
        Fresh([CPU_default EXCEPT !.a = a0, !.x = a0, !.flags.carry = (a0 # 0)])

\* the variables after a loader function returned r for the file
Loaded(op, buffer, r) ==
    /\ Commit(r.cpu)
    /\ last' = Did(op, buffer, r.ok, r.err)
    /\ nops' = nops + 1
    /\ UNCHANGED <<overflow_checks, pushed, base_sp, call>>

\* cpu.load_file(filename), for the bytes of the file
LoadFile ==
    \E buffer \in LoadFiles :
        /\ fatal = "none"
        /\ nops < MaxLoads
        /\ Loaded("load_file", buffer, load_file(Cur, buffer))

\* cpu.process_file(&buffer)
ProcessFile ==
    \E buffer \in LoadFiles :
        /\ fatal = "none"
        /\ nops < MaxLoads
        /\ Loaded("process_file", buffer, process_file(Cur, buffer))

NextLoad == LoadRamImage \/ LoadFile \/ ProcessFile

SpecLoad == InitLoad /\ [][NextLoad]_vars

\* C22: after load_file succeeds on a freshly created CPU, PC equals the
\* little-endian word stored at 0xFFFC/0xFFFD, SP = 0xFD, the
\* interrupt-disable flag is set, and A, X, Y are zero.
C22_ResetState ==
    (last.op = "load_file" /\ last.val /\ last.pre = CPU_default) =>
        /\ fatal = "none"
        /\ pc = MakeWord(Peek(memory, \hFFFD), Peek(memory, \hFFFC))
        /\ sp = \hFD
        /\ flags.interrupt_disable
        /\ a = 0 /\ x = 0 /\ y = 0

\* the last call handed this file to the loader
LoadedFile == last.arg

\* a loader function ran last
RanLoader == last.op \in {"load_file", "process_file"}

\* offsets into the PRG data probed after a load: the ends of both banks
\* and the vectors
LoadProbes ==
    {\h0000, \h0001, \h3FFC, \h3FFD, \h3FFF, \h4000, \h7FFC, \h7FFD, \h7FFF}

\* the mapper number of a header: the high nibble of byte 6 as its low
\* nibble and the high nibble of byte 7 as its high nibble
HeaderMapper(f) == (VecGet(f, 6) \div 16) + 16 * (VecGet(f, 7) \div 16)

\* the first four bytes of the file are 'N', 'E', 'S', 0x1A
HeaderMagic(f) ==
    <<VecGet(f, 0), VecGet(f, 1), VecGet(f, 2), VecGet(f, 3)>>
        = <<\h4E, \h45, \h53, \h1A>>

\* a mapper-0 file with one or two banks that holds all its PRG data
WellFormed(f) ==
    /\ HeaderMagic(f)
    /\ HeaderMapper(f) = 0
    /\ VecGet(f, 4) \in {1, 2}
    /\ f.len >= PrgStart(VecGet(f, 6)) + VecGet(f, 4) * \h4000

\* C23: a well-formed mapper-0 image loads; with one PRG bank every offset
\* i in [0, 0x3FFF] then satisfies read(0x8000 + i) = read(0xC000 + i) =
\* byte i of the bank, with two banks read(0x8000 + i) = byte i of the
\* 32 KiB of PRG data; the data starts after the 16-byte header and, when
\* bit 2 of header byte 6 is set, after the 512-byte trainer.
C23_NromMirror ==
    RanLoader =>
        /\ WellFormed(LoadedFile) => last.val
        /\ last.val =>
              /\ VecGet(LoadedFile, 4) \in {1, 2}
              /\ \A i \in LoadProbes :
                    LET byte == [ok |-> TRUE,
                                 val |-> VecGet(LoadedFile,
                                     PrgStart(VecGet(LoadedFile, 6)) + i)]
                    IN IF VecGet(LoadedFile, 4) = 2
                       THEN read(memory, \h8000 + i) = byte
                       ELSE i <= \h3FFF =>
                               /\ read(memory, \h8000 + i) = byte
                               /\ read(memory, \hC000 + i) = byte

\* a one-bank file with a trainer was loaded: both halves of the window
\* start and end with the marks of the bank, not with those of the trainer
C23_Witness ==
    /\ last.op = "process_file"
    /\ last.val
    /\ VecGet(LoadedFile, 4) = 1
    /\ VecGet(LoadedFile, 6) = \h04
    /\ Peek(memory, \h8000) = \hA1
    /\ Peek(memory, \hBFFF) = \hA2
    /\ Peek(memory, \hC000) = \hA1
    /\ Peek(memory, \hFFFF) = \hA2

\* C24: process_file returns an error and leaves registers, flags, RAM and
\* SRAM as they were when the first four bytes are not 'N','E','S',0x1A,
\* when the mapper number is not 0, or when the PRG bank count in byte 4 is
\* neither 1 nor 2.
C24_LoadRefused ==
    (/\ last.op = "process_file"
     /\ \/ ~HeaderMagic(LoadedFile)
        \/ HeaderMapper(LoadedFile) # 0
        \/ VecGet(LoadedFile, 4) \notin {1, 2}) =>
        /\ ~last.val
        /\ last.ret # "none"
        /\ fatal = "none"
        /\ <<pc, sp, a, x, y, flags>> =
               <<last.pre.pc, last.pre.sp, last.pre.a, last.pre.x,
                 last.pre.y, last.pre.flags>>
        /\ memory.ram = last.pre.memory.ram
        /\ memory.sram = last.pre.memory.sram

\* a file whose mapper number comes from byte 7 alone was refused, on a CPU
\* with RAM loaded and registers set
C24_Witness ==
    /\ last.op = "process_file"
    /\ last.ret = "Unsupported mapper"
    /\ VecGet(LoadedFile, 6) = 0
    /\ VecGet(LoadedFile, 7) = \h10
    /\ VecGet(LoadedFile, 4) = 1
    /\ Peek(memory, \h0001) = \hAD
    /\ a = \h5A

----------------------------------------------------------------------------
(* SpecBlargg: the loop of run_blargg_test at the head of a turn, in the   *)
(* middle of a run: the test ROM stores status and signature bytes         *)

BlarggSite == \h8000

\* STA $6000; STX $6001; JMP $8000
BlarggProgram == <<\h8D, \h00, \h60, \h8E, \h01, \h60, \h4C, \h00, \h80>>

\* status bytes: passed, running, the two kinds of failure
BlarggStatus == {\h00, \h80, \h81, \h01}

\* the first signature byte, present and absent
BlarggFirst == {\hDE, \h00}

\* messages at 0x6004: none and "AB"
BlarggMessages == {<<>>, <<\h41, \h42>>}

BlarggMemory(status, first, msg) ==
    PokeSeq(PokeSeq(PokeSeq(LoadedMemory, BlarggSite, BlarggProgram),
                    \h6000, <<status, first, \hB0, \h61>>),
            \h6004, msg)

\* number of turns of the loop in one run
MaxTurns == 3

InitBlargg ==
    \E status \in BlarggStatus, first \in BlarggFirst, msg \in BlarggMessages,
       a0 \in BlarggStatus, x0 \in BlarggFirst :
        Fresh([CPU_default EXCEPT !.memory = BlarggMemory(status, first, msg),
                                  !.pc = BlarggSite, !.a = a0, !.x = x0])

\* the variables after a turn t of the loop
Turned(t) ==
    /\ Commit(t.cpu)
    /\ last' = Did(t.outcome, t.arg, 0, t.report)
    /\ nops' = nops + 1
    /\ UNCHANGED <<overflow_checks, pushed, base_sp, call>>

\* one turn of the loop, unless the run has ended
BlarggTurn ==
    /\ fatal = "none"
    /\ last.op # "passed"
    /\ nops < MaxTurns
    /\ Turned(run_blargg_turn(Cur))

NextBlargg == BlarggTurn

SpecBlargg == InitBlargg /\ [][NextBlargg]_vars

\* the bytes of mem from index up to, not including, the first 0x00
RECURSIVE MessageAt(_, _)
MessageAt(mem, index) ==
    IF Peek(mem, index) = 0 THEN <<>>
    ELSE <<Peek(mem, index)>> \o MessageAt(mem, index + 1)

\* the bytes at 0x6001..0x6003 are DE B0 61
SignaturePresent ==
    /\ Peek(memory, \h6001) = \hDE
    /\ Peek(memory, \h6002) = \hB0
    /\ Peek(memory, \h6003) = \h61

\* C25: the harness loop takes no verdict from 0x6000 while the bytes at
\* 0x6001..0x6003 differ from DE B0 61 and calls step(); once the signature
\* is present, status 0x80 makes it step again, status 0x00 ends the run as
\* passed, and every other status ends the run as failed, reporting the
\* bytes from 0x6004 up to but not including the first 0x00; nothing runs
\* after the run has ended.
C25_BlarggLoop ==
    [][/\ fatal = "none" /\ last.op # "passed"
       /\ ~SignaturePresent => last'.op = "step"
       /\ (SignaturePresent /\ Peek(memory, \h6000) = \h80) =>
              last'.op = "step"
       /\ (SignaturePresent /\ Peek(memory, \h6000) = \h00) =>
              /\ last'.op = "passed"
              /\ fatal' = "none"
              /\ UNCHANGED <<memory, flags, pc, sp, a, x, y>>
       /\ (SignaturePresent /\ Peek(memory, \h6000) \notin {\h00, \h80}) =>
              /\ last'.op = "failed"
              /\ fatal' # "none"
              /\ last'.arg = Peek(memory, \h6000)
              /\ last'.ret = MessageAt(memory, \h6004)]_vars

----------------------------------------------------------------------------
(* SpecAdvance: step on every dispatched opcode whose semantic function is *)
(* modelled, other than JMP, JSR, RTS and RTI, at a site in RAM and at the *)
(* last two bytes of the address space, where PC + 1 + n passes 0xFFFF     *)

AdvanceSites == {\h0200, \hFFFE}

ControlFlow == {"jmp", "jsr", "rts", "rti"}

Branches == {"bcc", "bcs", "bne", "beq", "bpl", "bmi", "bvc", "bvs"}

\* the opcode bytes step is run on
AdvanceOpcodes ==
    {b \in 0..255 : Dispatch(b).sem \in Modelled \ (ControlFlow \cup {"unknown"})}

\* low and high operand bytes: operands in the zero page and in page 2
AdvanceLow == {\h10, \hFF}
AdvanceHigh == {\h00, \h02}

AdvanceIndexes == {\h00, \h01}

\* flag settings under which each branch is taken once and not taken once
AdvanceFlags ==
    {[carry |-> v, zero |-> v, interrupt_disable |-> FALSE,
      break_command |-> FALSE, overflow |-> v, negative |-> v] :
        v \in BOOLEAN}

InitAdvance ==
    \E P \in AdvanceSites, opcode \in AdvanceOpcodes, lo \in AdvanceLow,
       hi \in AdvanceHigh, i \in AdvanceIndexes, f \in AdvanceFlags :
        Fresh([CPU_default EXCEPT
                  !.memory = PokeSeq(LoadedMemory, P, <<opcode, lo, hi>>),
                  !.flags = f, !.pc = P, !.a = \h81, !.x = i, !.y = i])

NextAdvance == Step

SpecAdvance == InitAdvance /\ [][NextAdvance]_vars

\* the number of operand bytes of the arm e of step: none for implied and
\* accumulator, one for immediate, zero page, indexed zero page, both
\* indirect indexed modes and the relative operand of a branch, two for
\* absolute and indexed absolute
OperandLength(e) ==
    IF e.sem \in Branches THEN 1
    ELSE CASE e.mode \in {"Implied", "Accumulator"} -> 0
           [] e.mode \in {"Immediate", "ZeroPage", "ZeroPageX", "ZeroPageY",
                          "IndirectX", "IndirectY"} -> 1
           [] e.mode \in {"Absolute", "AbsoluteX", "AbsoluteY",
                          "Indirect"} -> 2

\* the last step returned from an instruction that is neither JMP, JSR,
\* RTS, RTI nor a taken branch
RanSequential ==
    /\ last.op = "step"
    /\ fatal = "none"
    /\ Dispatch(last.arg).sem \notin ControlFlow \cup {"unknown"}
    /\ Dispatch(last.arg).sem \in Branches =>
           ~BranchTaken(last.arg, last.pre.flags)

----------------------------------------------------------------------------
(* SpecRmw: step on every dispatched opcode of ASL, LSR, ROL, ROR, INC,    *)
(* DEC, SLO, RLA, SRE and DCP with a memory operand, over a zero page      *)
(* whose cells differ, so that a pointer read at the wrong cell shows      *)

RmwSite == \h0200

RmwSems ==
    {"asl", "lsr", "rol", "ror", "inc", "dec", "slo", "rla", "sre", "dcp"}

\* the opcode bytes step is run on
RmwOpcodes ==
    {b \in 0..255 : /\ Dispatch(b).sem \in RmwSems
                    /\ Dispatch(b).mode # "Accumulator"}

\* operand bytes: a cell in mid page, the last cell of a page, and the
\* pages 0 and 3 for the second byte of an absolute operand
RmwLow == {\h10, \hFF}
RmwHigh == {\h00, \h03}

RmwIndexes == {\h00, \h01, \hFF}

RmwAccumulators == {\h00, \h81}

\* the zero page of AddrMemory with the instruction at RmwSite
RmwMemory(opcode, lo, hi) ==
    PokeSeq([LoadedMemory EXCEPT
                !.ram = VecPatch(@, 0,
                                 [i \in 1 .. 256 |-> ZeroPageCell(i - 1)])],
            RmwSite, <<opcode, lo, hi>>)

InitRmw ==
    \E opcode \in RmwOpcodes, lo \in RmwLow, hi \in RmwHigh,
       X \in RmwIndexes, Y \in RmwIndexes, A \in RmwAccumulators,
       cf \in BOOLEAN :
        Fresh([CPU_default EXCEPT
                  !.memory = RmwMemory(opcode, lo, hi),
                  !.flags.carry = cf, !.pc = RmwSite,
                  !.a = A, !.x = X, !.y = Y])

NextRmw == Step

SpecRmw == InitRmw /\ [][NextRmw]_vars

\* the last step returned from the read-modify-write instruction at RmwSite
RanRmw(sems) ==
    /\ last.op = "step"
    /\ last.pre.pc = RmwSite
    /\ fatal = "none"
    /\ Dispatch(last.arg).sem \in sems

\* the CPU of the last step after its opcode fetch
Fetched == [last.pre EXCEPT !.pc = last.pre.pc + 1]

\* the address the last instruction read its operand from: the address of
\* update_byte for INC, DEC and DCP, of read_byte for the others
RmwReadAddress ==
    IF Dispatch(last.arg).sem \in {"inc", "dec", "dcp"}
    THEN UpdateAddress(Fetched, Dispatch(last.arg).mode, FALSE).val
    ELSE ReadAddress(Fetched, Dispatch(last.arg).mode, FALSE).val

\* C27: for every read-modify-write instruction (ASL, LSR, ROL, ROR, INC,
\* DEC, SLO, RLA, SRE, DCP) in every memory addressing mode the dispatcher
\* binds, for every operand and index value, the transformed byte is
\* written to exactly the address the original was read from, and no other
\* memory cell changes.
C27_RmwFrame ==
    RanRmw(RmwSems) =>
        memory = MemWrite(last.pre, RmwReadAddress,
                          Peek(memory, RmwReadAddress)).memory

\* the base instruction and the logical instruction of a combined opcode
\* run one after the other on the operand of the last step: the second
\* from the PC the first started at
BaseThenLogic(sem, addressing) ==
    CASE sem = "slo" ->
            ora([asl(Fetched, addressing).cpu EXCEPT !.pc = Fetched.pc],
                addressing).cpu
      [] sem = "rla" ->
            and([rol(Fetched, addressing).cpu EXCEPT !.pc = Fetched.pc],
                addressing).cpu
      [] sem = "sre" ->
            eor([lsr(Fetched, addressing).cpu EXCEPT !.pc = Fetched.pc],
                addressing).cpu

\* the addressing modes ASL, ROL and LSR take among those of SLO, RLA, SRE
BaseModes == {"Absolute", "AbsoluteX", "ZeroPage", "ZeroPageX"}

\* C28: SLO, RLA and SRE each leave the memory operand, A and the flags C,
\* N and Z exactly as the base instruction (ASL, ROL, LSR) followed by the
\* logical instruction (ORA, AND, EOR) on the same operand would.
C28_CombinedOpcodes ==
    (RanRmw({"slo", "rla", "sre"}) /\ Dispatch(last.arg).mode \in BaseModes) =>
        LET then == BaseThenLogic(Dispatch(last.arg).sem,
                                  Dispatch(last.arg).mode)
        IN /\ then.fatal = "none"
           /\ memory = then.memory
           /\ a = then.a
           /\ flags.carry = then.flags.carry
           /\ flags.negative = then.flags.negative
           /\ flags.zero = then.flags.zero

\* C29: DCP replaces the operand m by m' = (m - 1) mod 256 and then sets
\* the flags as CMP would for A against m': C = (A >= m'), Z = (A = m'),
\* N = bit 7 of (A - m') mod 256; A is unchanged.
C29_DcpCompare ==
    RanRmw({"dcp"}) =>
        LET m == Peek(last.pre.memory, RmwReadAddress)
            decremented == (m - 1) % 256
        IN /\ Peek(memory, RmwReadAddress) = decremented
           /\ flags.carry = (a >= decremented)
           /\ flags.zero = (a = decremented)
           /\ flags.negative = (Bit((a - decremented) % 256, 7) = 1)
           /\ a = last.pre.a

----------------------------------------------------------------------------
(* SpecDispatch: step on every opcode byte that has an arm in the match of *)
(* step and a modelled semantic function, from a site in RAM               *)

DispatchSite == \h0200

\* the opcode bytes with an arm, among the modelled semantic functions
DispatchOpcodes ==
    {b \in 0..255 : Dispatch(b).sem \in Modelled \ {"unknown"}}

InitDispatch ==
    \E opcode \in DispatchOpcodes, lo \in AdvanceLow, hi \in AdvanceHigh,
       i \in AdvanceIndexes, f \in AdvanceFlags :
        Fresh([CPU_default EXCEPT
                  !.memory = PokeSeq(LoadedMemory, DispatchSite,
                                     <<opcode, lo, hi>>),
                  !.flags = f, !.pc = DispatchSite, !.x = i, !.y = i])

NextDispatch == Step

SpecDispatch == InitDispatch /\ [][NextDispatch]_vars

\* the panics of a semantic function and of the three accessors on an
\* addressing mode none of their match arms names
UnsupportedAddressing ==
    {"doesn't support addressing",
     "read_byte doesn't support addressing",
     "write_byte doesn't support addressing",
     "update_byte doesn't support addressing"}

\* C30: every opcode byte with a dispatch entry is bound to an addressing
\* mode that its semantic function and the accessors it calls accept:
\* executing a dispatched opcode never ends in a "doesn't support ...
\* addressing" fatal.
C30_DispatchModes == fatal \notin UnsupportedAddressing

====
